---- MODULE Spec2Model ----
(***************************************************************************)
(* Voice-detection service (Sujaanb/Audio-Categorization).                 *)
(*                                                                         *)
(* Six specifications share the definitions below.                         *)
(*   Spec          the request handler as shipped: authentication, body    *)
(*                 validation and steps 1-4 of voice_detection.            *)
(*   SpecPipeline  the code behind the decoder: steps 5-8 of               *)
(*                 voice_detection entered with any decode result or a     *)
(*                 decoder error, and the detector API (predict,           *)
(*                 _apply_ensemble_heuristics, is_insufficient_signal,     *)
(*                 decode_mp3_to_waveform) called with inputs of a grid.   *)
(*   SpecWindows   _get_audio_windows on small waveforms.                  *)
(*   SpecWeights   download_weights run by several loaders at once, one    *)
(*                 action per statement; SpecWeightsFair adds weak         *)
(*                 fairness of every loader.                               *)
(*   SpecRegistry  the detector registry and the startup of the            *)
(*                 application (lifespan).                                 *)
(*                                                                         *)
(* Units.  Real numbers are fixed-point integers:                          *)
(*   durations        milliseconds (waveforms are whole 1 ms frames of     *)
(*                    sr/1000 samples, so len/sr is exact)                 *)
(*   rms, ratios      per-mille                                            *)
(*   probabilities    1/PROB_ONE (PROB_ONE = 6000: the mean of up to three *)
(*                    per-mille scores is exact)                           *)
(*   response score   hundredths (the handler rounds to 2 decimals)        *)
(***************************************************************************)
EXTENDS Integers, Sequences, FiniteSets, TLC

VARIABLES
    settings,     \* config.settings: VOICE_API_KEYS, AASIST_THRESHOLD
    detector,     \* detectors.registry._detector_instance
    rng,          \* state of the process-wide random module
    entry,        \* which entry point the current call came through
    pc,           \* position of the current call
    hdr,          \* x-api-key header of the request
    body,         \* JSON body of the request
    payload,      \* what the bytes of the request are, as audio
    mp3_bytes,    \* local of voice_detection: number of decoded bytes
    waveform,     \* local of voice_detection: the decoded waveform
    qc_metrics,   \* local of voice_detection / argument of the gate
    gate,         \* value returned by is_insufficient_signal
    scores,       \* aggregated probabilities handed to the decision engine
    rawExplanation, \* explanation as built, before PredictionResult cut it
    all_scores,   \* local of predict: the scores of each window, in order
    result,       \* value returned by the detector API call
    resp,         \* HTTP response of the request
    calls,        \* how often each collaborator ran during the current call
    sampler,      \* a call of _get_audio_windows: arguments, windows returned,
                  \* windows the loop computed, whether the fallback was taken
    fs,           \* the files of the weights cache directory
    loaders,      \* the processes running download_weights
    environ,      \* os.environ of the process: the value of DETECTOR_BACKEND
    startup       \* the lifespan of the application: whether and how it started

vars == <<settings, detector, rng, entry, pc, hdr, body, payload, mp3_bytes,
          waveform, qc_metrics, gate, scores, rawExplanation, all_scores, result, resp,
          calls, sampler, fs, loaders, environ, startup>>

(***************************************************************************)
(* Strings                                                                 *)
(***************************************************************************)
Char(s, i) == SubSeq(s, i, i)

\* str.lower() on the alphabet the model uses
LowerChar(c) ==
    CASE c = "A" -> "a" [] c = "B" -> "b" [] c = "C" -> "c" [] c = "D" -> "d"
      [] c = "K" -> "k" [] c = "M" -> "m" [] c = "P" -> "p" [] c = "W" -> "w"
      [] OTHER -> c

RECURSIVE LowerFrom(_, _)
LowerFrom(s, i) ==
    IF i > Len(s) THEN "" ELSE LowerChar(Char(s, i)) \o LowerFrom(s, i + 1)

Lower(s) == LowerFrom(s, 1)

\* str.split(",")
RECURSIVE SplitFrom(_, _, _)
SplitFrom(s, i, cur) ==
    IF i > Len(s) THEN <<cur>>
    ELSE IF Char(s, i) = "," THEN <<cur>> \o SplitFrom(s, i + 1, "")
    ELSE SplitFrom(s, i + 1, cur \o Char(s, i))

Split(s) == SplitFrom(s, 1, "")

\* str.strip()
RECURSIVE LStrip(_)
LStrip(s) ==
    IF Len(s) > 0 /\ Char(s, 1) = " " THEN LStrip(SubSeq(s, 2, Len(s))) ELSE s

RECURSIVE RStrip(_)
RStrip(s) ==
    IF Len(s) > 0 /\ Char(s, Len(s)) = " " THEN RStrip(SubSeq(s, 1, Len(s) - 1)) ELSE s

Strip(s) == RStrip(LStrip(s))

Digit(d) == SubSeq("0123456789", d + 1, d + 1)

\* str(n) / f"{n}" for a natural number
RECURSIVE NatStr(_)
NatStr(n) == IF n < 10 THEN Digit(n) ELSE NatStr(n \div 10) \o Digit(n % 10)

IntStr(n) == IF n < 0 THEN "-" \o NatStr(0 - n) ELSE NatStr(n)

\* round-half-even of num/den for num >= 0, den > 0 (what round() and the
\* format specs do on a value that is exactly representable)
RoundDiv(num, den) ==
    LET q == num \div den
        r == num % den
    IN IF 2 * r > den THEN q + 1
       ELSE IF 2 * r < den THEN q
       ELSE IF q % 2 = 0 THEN q ELSE q + 1

\* f"{x:.2f}" of x = hundredths/100, hundredths >= 0
Fmt2f(hundredths) ==
    NatStr(hundredths \div 100) \o "." \o Digit((hundredths % 100) \div 10)
        \o Digit(hundredths % 10)

\* f"{x:.1f}" of x = tenths/10, tenths >= 0
Fmt1f(tenths) == NatStr(tenths \div 10) \o "." \o Digit(tenths % 10)

\* s * n
RECURSIVE Repeat(_, _)
Repeat(s, n) ==
    IF n <= 0 THEN ""
    ELSE LET half == Repeat(s, n \div 2)
         IN half \o half \o (IF n % 2 = 1 THEN s ELSE "")

\* sub in s
Contains(s, sub) ==
    \E i \in 1..(Len(s) - Len(sub) + 1) : SubSeq(s, i, i + Len(sub) - 1) = sub

(***************************************************************************)
(* config.Settings                                                         *)
(***************************************************************************)
MAX_MP3_BYTES == 15000000
MAX_DURATION_SECONDS == 300
\* MIN_DURATION_SECONDS = 0.5, in milliseconds
MIN_DURATION_MS == 500
\* SILENCE_RATIO_THRESHOLD = 0.80, per-mille
SILENCE_RATIO_THRESHOLD_PM == 800
AASIST_MAX_WINDOWS == 3

RECURSIVE StripNonEmpty(_)
StripNonEmpty(parts) ==
    IF parts = <<>> THEN <<>>
    ELSE LET k == Strip(Head(parts))
         IN (IF k # "" THEN <<k>> ELSE <<>>) \o StripNonEmpty(Tail(parts))

get_api_keys(VOICE_API_KEYS) ==
    IF VOICE_API_KEYS = "" THEN <<>> ELSE StripNonEmpty(Split(VOICE_API_KEYS))

\* variant: no margin for padding
get_max_base64_length_no_margin == (MAX_MP3_BYTES * 4) \div 3

get_max_base64_length == (MAX_MP3_BYTES * 4) \div 3 + 100

(***************************************************************************)
(* base_requests: request and response models                              *)
(***************************************************************************)
SUPPORTED_LANGUAGES == {"Tamil", "English", "Hindi", "Malayalam", "Telugu"}

NoResp ==
    [code |-> 0, status |-> "none", message |-> "", language |-> "",
     classification |-> "", confidenceScore |-> 0, explanation |-> ""]

\* JSONResponse(status_code, VoiceDetectionErrorResponse(message)); the same
\* shape stands for an HTTPException whose detail is the error model
create_error_response(status_code, message) ==
    [NoResp EXCEPT !.code = status_code, !.status = "error", !.message = message]

\* pydantic validation of the request body: 422 when it fails
ValidBody(b) ==
    /\ b.language \in SUPPORTED_LANGUAGES
    /\ Lower(b.audioFormat) = "mp3"
    /\ b.audioBase64.len >= 1

\* VoiceDetectionSuccessResponse(...): pydantic raises ValidationError when a
\* field constraint fails (status "raise"); confidenceScore is in hundredths
VoiceDetectionSuccessResponse(language, classification, confidenceScore, explanation) ==
    IF /\ classification \in {"AI_GENERATED", "HUMAN"}
       /\ confidenceScore >= 0
       /\ confidenceScore <= 100
       /\ Len(explanation) <= 200
    THEN [NoResp EXCEPT !.code = 200, !.status = "success", !.language = language,
                        !.classification = classification,
                        !.confidenceScore = confidenceScore,
                        !.explanation = explanation]
    ELSE [NoResp EXCEPT !.status = "raise", !.message = "ValidationError"]

(***************************************************************************)
(* platform_services.verify_api_key                                        *)
(***************************************************************************)
\* hmac.compare_digest(a.encode(), b.encode())
compare_digest(a, b) == a = b

\* variant: the comparison without .lower()
KeyMatches_case_sensitive(api_key, valid_key) == compare_digest(api_key, valid_key)

KeyMatches(api_key, valid_key) == compare_digest(Lower(api_key), Lower(valid_key))

verify_api_key(h, VOICE_API_KEYS) ==
    IF ~h.present \/ h.value = ""
    THEN [ok |-> FALSE, message |-> "Missing API key. Include x-api-key header."]
    ELSE LET valid_keys == get_api_keys(VOICE_API_KEYS)
         IN IF valid_keys = <<>>
            THEN [ok |-> FALSE, message |-> "API authentication not configured."]
            ELSE IF \E i \in 1..Len(valid_keys) : KeyMatches(h.value, valid_keys[i])
            THEN [ok |-> TRUE, message |-> ""]
            ELSE [ok |-> FALSE, message |-> "Invalid API key."]

(***************************************************************************)
(* base64.b64decode(s, validate=True) on a string given by its length, its *)
(* number of trailing "=" and whether all its characters are well placed   *)
(***************************************************************************)
b64decode(a) ==
    IF a.wellformed /\ a.len % 4 = 0 /\ a.pad \in 0..2 /\ (a.pad > 0 => a.len >= 4)
    THEN [ok |-> TRUE, nbytes |-> 3 * (a.len \div 4) - a.pad]
    ELSE [ok |-> FALSE, nbytes |-> 0]

(***************************************************************************)
(* State shared by the two specifications                                  *)
(***************************************************************************)
NoCalls == [b64decode |-> 0, decode |-> 0, qc |-> 0, gate |-> 0, predict |-> 0]

NoWave == [ms |-> 0, silent |-> 0, clipped |-> 0, rms |-> 0]

NoQC == [duration_seconds |-> 0, rms |-> 0, silence_ratio |-> 0, clipping_ratio |-> 0]

NoScores == [orig_real |-> 0, orig_fake |-> 0, ft_real |-> 0, ft_fake |-> 0, n |-> 0]

NoResult ==
    [kind |-> "none", classification |-> "", confidenceScore |-> 0, explanation |-> ""]

\* no call of _get_audio_windows recorded
NoSampler == [called |-> FALSE, waveform |-> <<>>, nb_samp |-> 0, max_windows |-> 0,
              raised |-> FALSE, windows |-> <<>>, computed |-> 0, fallback |-> FALSE]

\* DETECTOR_BACKEND is not set in the environment
NoEnviron == [DETECTOR_BACKEND |-> "(unset)"]

\* the application has not been started
NoStartup == [ran |-> FALSE, raised |-> ""]

\* an empty cache directory: no lock file, no temporary file, no weight file
NoFiles == [lock |-> FALSE, tmp |-> 0, local |-> 0, inodes |-> <<>>]

NoHdr == [present |-> FALSE, value |-> ""]

NoBody ==
    [language |-> "", audioFormat |-> "",
     audioBase64 |-> [len |-> 0, pad |-> 0, wellformed |-> TRUE]]

NoPayload == [kind |-> "none", wave |-> NoWave]

INTERNAL_ERROR == "Internal server error. Please try again later."

(***************************************************************************)
(* services.qc                                                             *)
(*                                                                         *)
(* A waveform is given by what the pipeline reads of it: its length in     *)
(* 1 ms frames, how many frames are silent (|x| < 0.01), how many are      *)
(* clipped (|x| > 0.99), and its RMS in per-mille.                         *)
(***************************************************************************)
TARGET_SR == 16000

\* len(waveform)
WaveLen(w, sr) == w.ms * (sr \div 1000)

compute_qc_metrics(w, sr) ==
    IF WaveLen(w, sr) = 0
    THEN [duration_seconds |-> 0, rms |-> 0, silence_ratio |-> 1000, clipping_ratio |-> 0]
    ELSE [duration_seconds |-> WaveLen(w, sr) \div (sr \div 1000),
          rms |-> w.rms,
          silence_ratio |-> (w.silent * 1000) \div w.ms,
          clipping_ratio |-> (w.clipped * 1000) \div w.ms]

\* variant: the duration check alone
is_insufficient_signal_duration_only(qc, min_duration_seconds, silence_ratio_threshold) ==
    IF qc.duration_seconds < min_duration_seconds THEN TRUE
    ELSE FALSE

\* variant: both comparisons inclusive
is_insufficient_signal_inclusive(qc, min_duration_seconds, silence_ratio_threshold) ==
    IF qc.duration_seconds <= min_duration_seconds THEN TRUE
    ELSE IF qc.silence_ratio >= silence_ratio_threshold THEN TRUE
    ELSE FALSE

is_insufficient_signal(qc, min_duration_seconds, silence_ratio_threshold) ==
    IF qc.duration_seconds < min_duration_seconds THEN TRUE
    ELSE IF qc.silence_ratio >= silence_ratio_threshold THEN TRUE
    ELSE FALSE

(***************************************************************************)
(* services.audio_io: what subprocess.run of ffmpeg can do, and the decoder *)
(***************************************************************************)
AudioDecodeError(message) == [kind |-> "AudioDecodeError", message |-> message, wave |-> NoWave]

\* _decode_mp3_sync(mp3_bytes, target_sr) on the number of bytes and the
\* outcome `run` of the ffmpeg subprocess
_decode_mp3_sync(nbytes, run) ==
    IF nbytes = 0 THEN AudioDecodeError("Empty audio bytes provided")
    ELSE IF run.kind = "TimeoutExpired"
    THEN AudioDecodeError("ffmpeg decode timed out after 60 seconds")
    ELSE IF run.kind = "FileNotFoundError"
    THEN AudioDecodeError("ffmpeg not found. Please install ffmpeg.")
    ELSE IF run.kind = "OSError"
    THEN AudioDecodeError("Unexpected error during decode: OSError: " \o run.stderr)
    ELSE IF run.returncode # 0
    THEN AudioDecodeError("ffmpeg decode failed: "
             \o (IF Strip(run.stderr) # "" THEN Strip(run.stderr) ELSE "Unknown error"))
    ELSE IF run.wave.ms = 0
    THEN AudioDecodeError("ffmpeg produced no output")
    ELSE [kind |-> "ok", message |-> "", wave |-> run.wave]

(***************************************************************************)
(* detectors.base.PredictionResult                                         *)
(***************************************************************************)
PROB_ONE == 60 * 100

\* a probability given in percent / in per-mille, in units of 1/PROB_ONE
Pct(p) == p * (PROB_ONE \div 100)

Pm(p) == p * (PROB_ONE \div 1000)

Raise(what) ==
    [kind |-> "raise", classification |-> "", confidenceScore |-> 0, explanation |-> what]

\* variant: explanation[:200] + "..."
TruncateExplanation_at_200(explanation) ==
    IF Len(explanation) > 200 THEN SubSeq(explanation, 1, 200) \o "..." ELSE explanation

\* explanation[:197] + "..." when longer than 200
TruncateExplanation(explanation) ==
    IF Len(explanation) > 200 THEN SubSeq(explanation, 1, 197) \o "..." ELSE explanation

\* the dataclass constructor followed by __post_init__
PredictionResult(classification, confidenceScore, explanation) ==
    IF ~(0 <= confidenceScore /\ confidenceScore <= PROB_ONE)
    THEN Raise("ValueError")
    ELSE [kind |-> "ok", classification |-> classification,
          confidenceScore |-> confidenceScore,
          explanation |-> TruncateExplanation(explanation)]

(***************************************************************************)
(* The random module: a small linear congruential generator stands for the *)
(* Mersenne Twister.  seed(n) sets the state, every draw advances it.      *)
(***************************************************************************)
RNG_MOD == 8

RngSeed(n) == n % RNG_MOD

RngNext(s) == (5 * s + 3) % RNG_MOD

\* random.random() of state s, per-mille, in [0, 1000)
RandomPm(s) == (s * 1000) \div RNG_MOD

\* round(random.uniform(a, b), 2), a and b in hundredths; result in hundredths
RoundUniform(s, a, b) == RoundDiv(a * 1000 + (b - a) * RandomPm(s), 1000)

\* index (from 1) picked by random.choice among n items
RandomChoice(s, n) == (RandomPm(s) * n) \div 1000 + 1

(***************************************************************************)
(* detectors.aasist_detector.AASISTEnsembleDetector                        *)
(***************************************************************************)
NB_SAMP == 64600

Max(a, b) == IF a >= b THEN a ELSE b

Min(a, b) == IF a <= b THEN a ELSE b

\* _get_audio_windows, on lengths: the start offsets of the windows returned
\* (a tiled short waveform is one window starting at 0); total_len >= 1
WindowStarts(total_len, nb_samp, max_windows) ==
    IF total_len <= nb_samp THEN <<0>>
    ELSE LET n_windows == Max(1, Min(max_windows, total_len \div nb_samp))
             step == IF n_windows > 1
                     THEN (total_len - nb_samp) \div Max(1, n_windows - 1)
                     ELSE 0
             kept == SelectSeq([i \in 1..n_windows |-> (i - 1) * step],
                               LAMBDA start : start + nb_samp <= total_len)
         IN IF kept # <<>> THEN kept ELSE <<0>>

\* waveform[a:b]
Slice(samples, a, b) == SubSeq(samples, a + 1, Min(b, Len(samples)))

\* np.tile(waveform, num_repeats)
RECURSIVE Tile(_, _)
Tile(samples, num_repeats) ==
    IF num_repeats <= 0 THEN <<>> ELSE samples \o Tile(samples, num_repeats - 1)

\* int(np.ceil(a / b)) for a >= 0, b >= 1
CeilDiv(a, b) == (a + b - 1) \div b

\* variant: the tiled waveform is not cut to nb_samp
_get_audio_windows_untruncated(samples, nb_samp, max_windows) ==
    IF Len(samples) = 0 THEN [raised |-> TRUE, windows |-> <<>>, computed |-> 0, fallback |-> FALSE]
    ELSE IF Len(samples) <= nb_samp
    THEN [raised |-> FALSE, computed |-> 0, fallback |-> FALSE,
          windows |-> << Tile(samples, CeilDiv(nb_samp, Len(samples))) >>]
    ELSE LET total_len == Len(samples)
             n_windows == Max(1, Min(max_windows, total_len \div nb_samp))
             step == IF n_windows > 1
                     THEN (total_len - nb_samp) \div Max(1, n_windows - 1)
                     ELSE 0
             starts == SelectSeq([i \in 1..n_windows |-> (i - 1) * step],
                                 LAMBDA start : start + nb_samp <= total_len)
             windows == [k \in 1..Len(starts) |->
                            Slice(samples, starts[k], starts[k] + nb_samp)]
         IN [raised |-> FALSE, computed |-> n_windows, fallback |-> windows = <<>>,
             windows |-> IF windows # <<>> THEN windows
                         ELSE << Slice(samples, 0, nb_samp) >>]

\* variant: the step divides by the number of windows
_get_audio_windows_step_by_count(samples, nb_samp, max_windows) ==
    IF Len(samples) = 0 THEN [raised |-> TRUE, windows |-> <<>>, computed |-> 0, fallback |-> FALSE]
    ELSE IF Len(samples) <= nb_samp
    THEN [raised |-> FALSE, computed |-> 0, fallback |-> FALSE,
          windows |-> << Slice(Tile(samples, CeilDiv(nb_samp, Len(samples))),
                               0, nb_samp) >>]
    ELSE LET total_len == Len(samples)
             n_windows == Max(1, Min(max_windows, total_len \div nb_samp))
             step == IF n_windows > 1
                     THEN (total_len - nb_samp) \div Max(1, n_windows)
                     ELSE 0
             starts == SelectSeq([i \in 1..n_windows |-> (i - 1) * step],
                                 LAMBDA start : start + nb_samp <= total_len)
             windows == [k \in 1..Len(starts) |->
                            Slice(samples, starts[k], starts[k] + nb_samp)]
         IN [raised |-> FALSE, computed |-> n_windows, fallback |-> windows = <<>>,
             windows |-> IF windows # <<>> THEN windows
                         ELSE << Slice(samples, 0, nb_samp) >>]

\* variant: max_windows windows whatever the length of the waveform
_get_audio_windows_fixed_count(samples, nb_samp, max_windows) ==
    IF Len(samples) = 0 THEN [raised |-> TRUE, windows |-> <<>>, computed |-> 0, fallback |-> FALSE]
    ELSE IF Len(samples) <= nb_samp
    THEN [raised |-> FALSE, computed |-> 0, fallback |-> FALSE,
          windows |-> << IF Len(samples) >= nb_samp
                         THEN Slice(samples, 0, nb_samp)
                         ELSE Slice(Tile(samples, CeilDiv(nb_samp, Len(samples))),
                                    0, nb_samp) >>]
    ELSE LET total_len == Len(samples)
             n_windows == Max(1, max_windows)
             step == IF n_windows > 1
                     THEN (total_len - nb_samp) \div Max(1, n_windows - 1)
                     ELSE 0
             starts == SelectSeq([i \in 1..n_windows |-> (i - 1) * step],
                                 LAMBDA start : start + nb_samp <= total_len)
             windows == [k \in 1..Len(starts) |->
                            Slice(samples, starts[k], starts[k] + nb_samp)]
         IN [raised |-> FALSE, computed |-> n_windows, fallback |-> windows = <<>>,
             windows |-> IF windows # <<>> THEN windows
                         ELSE << Slice(samples, 0, nb_samp) >>]

\* _get_audio_windows on the samples (lines 192-218), nb_samp and max_windows
\* passed in; an empty waveform makes nb_samp / len(waveform) raise
\* ZeroDivisionError
_get_audio_windows(samples, nb_samp, max_windows) ==
    IF Len(samples) = 0 THEN [raised |-> TRUE, windows |-> <<>>, computed |-> 0, fallback |-> FALSE]
    ELSE IF Len(samples) <= nb_samp
    THEN [raised |-> FALSE, computed |-> 0, fallback |-> FALSE,
          windows |-> << IF Len(samples) >= nb_samp
                         THEN Slice(samples, 0, nb_samp)
                         ELSE Slice(Tile(samples, CeilDiv(nb_samp, Len(samples))),
                                    0, nb_samp) >>]
    ELSE LET total_len == Len(samples)
             n_windows == Max(1, Min(max_windows, total_len \div nb_samp))
             step == IF n_windows > 1
                     THEN (total_len - nb_samp) \div Max(1, n_windows - 1)
                     ELSE 0
             starts == SelectSeq([i \in 1..n_windows |-> (i - 1) * step],
                                 LAMBDA start : start + nb_samp <= total_len)
             windows == [k \in 1..Len(starts) |->
                            Slice(samples, starts[k], starts[k] + nb_samp)]
         IN [raised |-> FALSE, computed |-> n_windows, fallback |-> windows = <<>>,
             windows |-> IF windows # <<>> THEN windows
                         ELSE << Slice(samples, 0, nb_samp) >>]

RECURSIVE SumField(_, _)
SumField(seq, f) == IF seq = <<>> THEN 0 ELSE Head(seq)[f] + SumField(Tail(seq), f)

\* variant: the sum divided by AASIST_MAX_WINDOWS
MeanField_fixed_count(seq, f) == SumField(seq, f) \div AASIST_MAX_WINDOWS

\* np.mean over the per-window scores of one channel
MeanField(seq, f) == SumField(seq, f) \div Len(seq)

\* f"{p:.0%}" of a probability in units of 1/PROB_ONE
FmtPercent(p) ==
    IF p < 0 THEN "-" \o NatStr(RoundDiv(0 - p, PROB_ONE \div 100)) \o "%"
    ELSE NatStr(RoundDiv(p, PROB_ONE \div 100)) \o "%"

\* variant of the chain: rule 2 matches orig_fake <= 0.15
EnsembleRule_rule2_inclusive(orig_real, orig_fake, ft_real, ft_fake, threshold) ==
    IF orig_fake > Pct(95) /\ ft_real > Pct(95)
    THEN [is_fake |-> FALSE, confidence |-> ft_real,
          detected_pattern |-> "Indian REAL (inverted detection)"]
    ELSE IF orig_fake <= Pct(15) /\ ft_real > Pct(80)
    THEN [is_fake |-> TRUE, confidence |-> PROB_ONE - orig_fake,
          detected_pattern |-> "Indian FAKE (inverted detection)"]
    ELSE IF orig_fake > Pct(92)
    THEN [is_fake |-> TRUE, confidence |-> orig_fake,
          detected_pattern |-> "English FAKE (direct detection)"]
    ELSE IF orig_fake > Pct(85) /\ ft_real > Pct(95)
    THEN [is_fake |-> FALSE, confidence |-> ft_real,
          detected_pattern |-> "English REAL (threshold)"]
    ELSE IF ft_real > Pct(99) /\ orig_fake < Pct(91)
    THEN [is_fake |-> FALSE, confidence |-> ft_real,
          detected_pattern |-> "Default REAL (fine-tuned confident)"]
    ELSE LET is_fake == orig_fake > threshold
         IN [is_fake |-> is_fake,
             confidence |-> IF is_fake THEN orig_fake ELSE orig_real,
             detected_pattern |-> "Default (weighted)"]

\* variant of the chain: rule 4 tried before rule 3
EnsembleRule_rule4_first(orig_real, orig_fake, ft_real, ft_fake, threshold) ==
    IF orig_fake > Pct(95) /\ ft_real > Pct(95)
    THEN [is_fake |-> FALSE, confidence |-> ft_real,
          detected_pattern |-> "Indian REAL (inverted detection)"]
    ELSE IF orig_fake < Pct(15) /\ ft_real > Pct(80)
    THEN [is_fake |-> TRUE, confidence |-> PROB_ONE - orig_fake,
          detected_pattern |-> "Indian FAKE (inverted detection)"]
    ELSE IF orig_fake > Pct(85) /\ ft_real > Pct(95)
    THEN [is_fake |-> FALSE, confidence |-> ft_real,
          detected_pattern |-> "English REAL (threshold)"]
    ELSE IF orig_fake > Pct(92)
    THEN [is_fake |-> TRUE, confidence |-> orig_fake,
          detected_pattern |-> "English FAKE (direct detection)"]
    ELSE IF ft_real > Pct(99) /\ orig_fake < Pct(91)
    THEN [is_fake |-> FALSE, confidence |-> ft_real,
          detected_pattern |-> "Default REAL (fine-tuned confident)"]
    ELSE LET is_fake == orig_fake > threshold
         IN [is_fake |-> is_fake,
             confidence |-> IF is_fake THEN orig_fake ELSE orig_real,
             detected_pattern |-> "Default (weighted)"]

\* variant: the default rule reports the probability of the class it did not
\* choose
EnsembleRule_default_swapped(orig_real, orig_fake, ft_real, ft_fake, threshold) ==
    IF orig_fake > Pct(95) /\ ft_real > Pct(95)
    THEN [is_fake |-> FALSE, confidence |-> ft_real,
          detected_pattern |-> "Indian REAL (inverted detection)"]
    ELSE IF orig_fake < Pct(15) /\ ft_real > Pct(80)
    THEN [is_fake |-> TRUE, confidence |-> PROB_ONE - orig_fake,
          detected_pattern |-> "Indian FAKE (inverted detection)"]
    ELSE IF orig_fake > Pct(92)
    THEN [is_fake |-> TRUE, confidence |-> orig_fake,
          detected_pattern |-> "English FAKE (direct detection)"]
    ELSE IF orig_fake > Pct(85) /\ ft_real > Pct(95)
    THEN [is_fake |-> FALSE, confidence |-> ft_real,
          detected_pattern |-> "English REAL (threshold)"]
    ELSE IF ft_real > Pct(99) /\ orig_fake < Pct(91)
    THEN [is_fake |-> FALSE, confidence |-> ft_real,
          detected_pattern |-> "Default REAL (fine-tuned confident)"]
    ELSE LET is_fake == orig_fake > threshold
         IN [is_fake |-> is_fake,
             confidence |-> IF is_fake THEN orig_real ELSE orig_fake,
             detected_pattern |-> "Default (weighted)"]

\* the if/elif chain of _apply_ensemble_heuristics (lines 246-282)
EnsembleRule(orig_real, orig_fake, ft_real, ft_fake, threshold) ==
    IF orig_fake > Pct(95) /\ ft_real > Pct(95)
    THEN [is_fake |-> FALSE, confidence |-> ft_real,
          detected_pattern |-> "Indian REAL (inverted detection)"]
    ELSE IF orig_fake < Pct(15) /\ ft_real > Pct(80)
    THEN [is_fake |-> TRUE, confidence |-> PROB_ONE - orig_fake,
          detected_pattern |-> "Indian FAKE (inverted detection)"]
    ELSE IF orig_fake > Pct(92)
    THEN [is_fake |-> TRUE, confidence |-> orig_fake,
          detected_pattern |-> "English FAKE (direct detection)"]
    ELSE IF orig_fake > Pct(85) /\ ft_real > Pct(95)
    THEN [is_fake |-> FALSE, confidence |-> ft_real,
          detected_pattern |-> "English REAL (threshold)"]
    ELSE IF ft_real > Pct(99) /\ orig_fake < Pct(91)
    THEN [is_fake |-> FALSE, confidence |-> ft_real,
          detected_pattern |-> "Default REAL (fine-tuned confident)"]
    ELSE LET is_fake == orig_fake > threshold
         IN [is_fake |-> is_fake,
             confidence |-> IF is_fake THEN orig_fake ELSE orig_real,
             detected_pattern |-> "Default (weighted)"]

\* variant: no clamp
ClampConfidence_identity(confidence) == confidence

\* confidence = max(0.0, min(1.0, confidence))
ClampConfidence(confidence) == Max(0, Min(PROB_ONE, confidence))

\* the explanation built at lines 288-291
EnsembleExplanation(detected_pattern, orig_fake, ft_real) ==
    "Ensemble: " \o detected_pattern \o ". Orig(fake=" \o FmtPercent(orig_fake)
        \o "), FT(real=" \o FmtPercent(ft_real) \o ")"

_apply_ensemble_heuristics(orig_real, orig_fake, ft_real, ft_fake, language, threshold) ==
    LET rule == EnsembleRule(orig_real, orig_fake, ft_real, ft_fake, threshold)
        classification == IF rule.is_fake THEN "AI_GENERATED" ELSE "HUMAN"
        confidence == ClampConfidence(rule.confidence)
        explanation == TruncateExplanation(
            EnsembleExplanation(rule.detected_pattern, orig_fake, ft_real))
    IN PredictionResult(classification, confidence, explanation)

\* explanation of _predict_demo before PredictionResult
DemoExplanation(is_ai, language) ==
    IF is_ai
    THEN "[DEMO] Detected synthetic speech patterns in " \o language
             \o " audio. Models not loaded - using dummy response."
    ELSE "[DEMO] Natural speech patterns in " \o language
             \o " audio. Models not loaded - using dummy response."

\* _predict_demo without line 309: the draws continue from the state the
\* random module is in
_predict_demo_unseeded(language, qc) ==
    LET s0 == rng
        is_ai == RandomPm(s0) > 500
        s1 == RngNext(s0)
        confidence == IF is_ai THEN RoundUniform(s1, 70, 92) ELSE RoundUniform(s1, 68, 90)
    IN [result |-> PredictionResult(IF is_ai THEN "AI_GENERATED" ELSE "HUMAN",
                                    confidence * (PROB_ONE \div 100),
                                    DemoExplanation(is_ai, language)),
        raw |-> DemoExplanation(is_ai, language),
        rng |-> RngNext(s1)]

\* _predict_demo: the result and the state it leaves the random module in
_predict_demo(language, qc) ==
    LET s0 == RngSeed(qc.rms * 10)       \* random.seed(int(rms * 10000))
        is_ai == RandomPm(s0) > 500
        s1 == RngNext(s0)
        confidence == IF is_ai THEN RoundUniform(s1, 70, 92) ELSE RoundUniform(s1, 68, 90)
    IN [result |-> PredictionResult(IF is_ai THEN "AI_GENERATED" ELSE "HUMAN",
                                    confidence * (PROB_ONE \div 100),
                                    DemoExplanation(is_ai, language)),
        raw |-> DemoExplanation(is_ai, language),
        rng |-> RngNext(s1)]

\* AASISTEnsembleDetector.predict with models loaded (lines 140-177):
\* win_scores holds the softmax scores of each window, in window order
predict_ensemble(language, w, win_scores, threshold) ==
    IF WaveLen(w, TARGET_SR) = 0
    THEN [result |-> Raise("ZeroDivisionError"), raw |-> "", scores |-> NoScores,
          all_scores |-> <<>>]
    ELSE LET avg_orig_real == MeanField(win_scores, "orig_real")
             avg_orig_fake == MeanField(win_scores, "orig_fake")
             avg_ft_real == MeanField(win_scores, "ft_real")
             avg_ft_fake == MeanField(win_scores, "ft_fake")
             rule == EnsembleRule(avg_orig_real, avg_orig_fake, avg_ft_real,
                                  avg_ft_fake, threshold)
         IN [result |-> _apply_ensemble_heuristics(avg_orig_real, avg_orig_fake,
                            avg_ft_real, avg_ft_fake, language, threshold),
             raw |-> EnsembleExplanation(rule.detected_pattern, avg_orig_fake, avg_ft_real),
             scores |-> [orig_real |-> avg_orig_real, orig_fake |-> avg_orig_fake,
                         ft_real |-> avg_ft_real, ft_fake |-> avg_ft_fake,
                         n |-> Len(win_scores)],
             all_scores |-> win_scores]

(***************************************************************************)
(* detectors.qc_fallback.QCFallbackDetector                                *)
(***************************************************************************)
QCFallbackExplanations(is_ai, language, confidence) ==
    IF is_ai
    THEN << "[DUMMY] Detected synthetic speech patterns in " \o language \o " audio.",
            "[DUMMY] Spectral analysis indicates AI-generated voice characteristics.",
            "[DUMMY] Neural TTS artifacts detected with " \o NatStr(confidence)
                \o "% confidence.",
            "[DUMMY] Voice synthesis markers found in frequency domain." >>
    ELSE << "[DUMMY] Natural speech patterns detected in " \o language \o " audio.",
            "[DUMMY] Human voice characteristics confirmed.",
            "[DUMMY] No synthetic artifacts detected. Appears to be human speech.",
            "[DUMMY] Audio analysis indicates genuine human voice." >>

predict_qc_fallback(language, qc, s) ==
    IF qc.duration_seconds < 500
    THEN LET e == "Audio too short (" \o Fmt2f(RoundDiv(qc.duration_seconds, 10))
                      \o "s). Low-confidence result due to insufficient signal."
         IN [result |-> PredictionResult("HUMAN", Pct(50), e), raw |-> e, rng |-> s]
    ELSE IF qc.silence_ratio >= 800
    THEN LET e == "Audio mostly silent (" \o NatStr(RoundDiv(qc.silence_ratio, 10))
                      \o "% silence). Low-confidence result."
         IN [result |-> PredictionResult("HUMAN", Pct(52), e), raw |-> e, rng |-> s]
    ELSE LET is_ai == RandomPm(s) > 500
             s1 == RngNext(s)
             confidence == IF is_ai THEN RoundUniform(s1, 70, 95)
                           ELSE RoundUniform(s1, 65, 92)
             s2 == RngNext(s1)
             e == QCFallbackExplanations(is_ai, language, confidence)[RandomChoice(s2, 4)]
         IN [result |-> PredictionResult(IF is_ai THEN "AI_GENERATED" ELSE "HUMAN",
                                         Pct(confidence), e),
             raw |-> e, rng |-> RngNext(s2)]

(***************************************************************************)
(* detector.predict(language, mp3_bytes, waveform, sr, qc) of the detector *)
(* instance det                                                            *)
(***************************************************************************)
predict(det, language, w, qc, s, win_scores, threshold) ==
    IF det = "qc_fallback"
    THEN LET r == predict_qc_fallback(language, qc, s)
         IN [result |-> r.result, raw |-> r.raw, rng |-> r.rng, scores |-> NoScores,
             all_scores |-> <<>>]
    ELSE IF det = "aasist_demo"
    THEN LET r == _predict_demo(language, qc)
         IN [result |-> r.result, raw |-> r.raw, rng |-> r.rng, scores |-> NoScores,
             all_scores |-> <<>>]
    ELSE LET r == predict_ensemble(language, w, win_scores, threshold)
         IN [result |-> r.result, raw |-> r.raw, rng |-> s, scores |-> r.scores,
             all_scores |-> r.all_scores]

(***************************************************************************)
(* platform_services.voice_detection: the pieces of the handler            *)
(***************************************************************************)
NoGate ==
    [called |-> FALSE, min_duration_seconds |-> 0, silence_ratio_threshold |-> 0,
     value |-> FALSE]

\* except Exception: ... return create_error_response(500, ...)
\* an exception raised inside the handler's try block
Raised(exception) == [NoResp EXCEPT !.status = "raise", !.message = exception]

\* variant: the 500 response carries the text of the exception
Handler500_leaky(r) ==
    IF r.status = "raise" THEN create_error_response(500, r.message) ELSE r

Handler500(r) ==
    IF r.status = "raise" THEN create_error_response(500, INTERNAL_ERROR) ELSE r

\* variant: the silence ratio looked at first
ShortCircuitExplanation_silence_first(qc) ==
    "Insufficient audio signal for reliable detection. "
        \o (IF qc.silence_ratio >= SILENCE_RATIO_THRESHOLD_PM
            THEN "High silence ratio (" \o NatStr(RoundDiv(qc.silence_ratio, 10)) \o "%)."
            ELSE "Audio too short (" \o Fmt2f(RoundDiv(qc.duration_seconds, 10)) \o "s).")

\* explanation of the low-confidence response (lines 188-192)
ShortCircuitExplanation(qc) ==
    "Insufficient audio signal for reliable detection. "
        \o (IF qc.duration_seconds < MIN_DURATION_MS
            THEN "Audio too short (" \o Fmt2f(RoundDiv(qc.duration_seconds, 10)) \o "s)."
            ELSE "High silence ratio (" \o NatStr(RoundDiv(qc.silence_ratio, 10)) \o "%).")

\* round(0.50 + (qc_metrics["rms"] * 0.5), 2), in hundredths (line 197)
ShortCircuitConfidence(qc) == RoundDiv(1000 + qc.rms, 20)

\* the low-confidence success response (lines 194-199)
ShortCircuitResponse(language, qc) ==
    VoiceDetectionSuccessResponse(language, "HUMAN", ShortCircuitConfidence(qc),
                                  ShortCircuitExplanation(qc))

\* the response built from the detector's result (lines 217-222)
DetectorResponse(language, r) ==
    IF r.kind = "raise" THEN Raised(r.explanation)
    ELSE VoiceDetectionSuccessResponse(language, r.classification,
                                       RoundDiv(r.confidenceScore, PROB_ONE \div 100),
                                       r.explanation)

\* duration returned by the decoder: len(waveform) / target_sr, in ms
DecodedDuration(w) == WaveLen(w, TARGET_SR) \div (TARGET_SR \div 1000)

cfgVars == <<settings, detector>>

reqVars == <<hdr, body, payload>>

localVars == <<mp3_bytes, waveform, qc_metrics, gate>>

detVars == <<scores, rawExplanation, all_scores, result>>

libVars == <<sampler, fs, loaders, environ, startup>>

(***************************************************************************)
(* Inputs                                                                  *)
(***************************************************************************)
KeyConfigs == {"", "ab", "ab,Cd", " ab , ,cd", ",", " "}

Headers ==
    {NoHdr} \cup {[present |-> TRUE, value |-> v] :
                     v \in {"", "ab", "AB", "aB", "cd", "zz", "ab,Cd", "a", " "}}

B64Grid ==
    { [len |-> 0, pad |-> 0, wellformed |-> TRUE],
      [len |-> 4, pad |-> 2, wellformed |-> TRUE],
      [len |-> 400, pad |-> 0, wellformed |-> TRUE],
      [len |-> 19, pad |-> 0, wellformed |-> FALSE],
      [len |-> 6, pad |-> 0, wellformed |-> TRUE],
      [len |-> get_max_base64_length - 100, pad |-> 0, wellformed |-> TRUE],
      [len |-> get_max_base64_length - 96, pad |-> 2, wellformed |-> TRUE],
      [len |-> get_max_base64_length, pad |-> 0, wellformed |-> TRUE],
      [len |-> get_max_base64_length + 1, pad |-> 0, wellformed |-> FALSE],
      [len |-> get_max_base64_length + 4, pad |-> 0, wellformed |-> TRUE] }

Bodies ==
    [language : {"Tamil", "English", "French"},
     audioFormat : {"mp3", "MP3", "wav"},
     audioBase64 : B64Grid]

Wave(ms, silent_pm, rms) ==
    [ms |-> ms, silent |-> (ms * silent_pm) \div 1000,
     clipped |-> IF rms = 1000 THEN ms ELSE 0, rms |-> rms]

\* silence per-mille and RMS per-mille that one waveform can have together
SignalGrid ==
    { <<0, 100>>, <<0, 103>>, <<0, 120>>, <<0, 500>>, <<0, 1000>>, <<799, 100>>,
      <<800, 100>>, <<800, 120>>, <<1000, 0>>, <<1000, 4>> }

\* waveform durations in ms, around MIN_DURATION_SECONDS, NB_SAMP (4037.5 ms)
\* and MAX_DURATION_SECONDS
DurationGrid ==
    { 300, MIN_DURATION_MS - 1, MIN_DURATION_MS, 1000, 4037, 4038, 10000, 20000,
      MAX_DURATION_SECONDS * 1000, MAX_DURATION_SECONDS * 1000 + 1 }

Waveforms == { Wave(ms, sg[1], sg[2]) : ms \in DurationGrid, sg \in SignalGrid }

\* what the bytes of a request are: not audio at all, or the encoding of a waveform
Payloads ==
    { [kind |-> "garbage", wave |-> NoWave],
      [kind |-> "audio", wave |-> Wave(300, 1000, 0)],
      [kind |-> "audio", wave |-> Wave(1000, 0, 100)] }

RngStart == {0, RNG_MOD - 1}

(***************************************************************************)
(* Spec: the service as shipped                                            *)
(***************************************************************************)
Init ==
    /\ settings \in {[VOICE_API_KEYS |-> k, AASIST_THRESHOLD |-> Pct(50)] : k \in KeyConfigs}
    /\ detector \in {"None", "qc_fallback"}
    /\ rng \in RngStart
    /\ entry = "none"
    /\ pc = "idle"
    /\ hdr = NoHdr
    /\ body = NoBody
    /\ payload = NoPayload
    /\ mp3_bytes = 0
    /\ waveform = NoWave
    /\ qc_metrics = NoQC
    /\ gate = NoGate
    /\ scores = NoScores
    /\ rawExplanation = ""
    /\ all_scores = <<>>
    /\ result = NoResult
    /\ resp = NoResp
    /\ calls = NoCalls
    /\ sampler = NoSampler
    /\ fs = NoFiles
    /\ loaders = <<>>
    /\ environ = NoEnviron
    /\ startup = NoStartup

\* a request arrives at POST /api/voice-detection
Receive ==
    /\ pc = "idle"
    /\ \E h \in Headers, b \in Bodies, p \in Payloads :
          /\ hdr' = h
          /\ body' = b
          /\ payload' = p
    /\ entry' = "request"
    /\ pc' = "auth"
    /\ mp3_bytes' = 0
    /\ waveform' = NoWave
    /\ qc_metrics' = NoQC
    /\ gate' = NoGate
    /\ scores' = NoScores
    /\ rawExplanation' = ""
    /\ all_scores' = <<>>
    /\ result' = NoResult
    /\ resp' = NoResp
    /\ calls' = NoCalls
    /\ UNCHANGED <<libVars, cfgVars, rng>>

\* Depends(verify_api_key)
Auth ==
    /\ pc = "auth"
    /\ LET r == verify_api_key(hdr, settings.VOICE_API_KEYS)
       IN IF r.ok
          THEN /\ pc' = "validate"
               /\ resp' = resp
          ELSE /\ pc' = "done"
               /\ resp' = create_error_response(401, r.message)
    /\ UNCHANGED <<libVars, cfgVars, rng, entry, reqVars, localVars, detVars, calls>>

\* body: VoiceDetectionRequest (validate_audio_format returns v.lower())
Validate ==
    /\ pc = "validate"
    /\ IF ValidBody(body)
       THEN /\ pc' = "step1"
            /\ body' = [body EXCEPT !.audioFormat = Lower(body.audioFormat)]
            /\ resp' = resp
       ELSE /\ pc' = "done"
            /\ body' = body
            /\ resp' = create_error_response(422, "validation error")
    /\ UNCHANGED <<libVars, cfgVars, rng, entry, hdr, payload, localVars, detVars, calls>>

\* Step 1: base64 string length (lines 125-131)
Step1 ==
    /\ pc = "step1"
    /\ IF body.audioBase64.len > get_max_base64_length
       THEN /\ pc' = "done"
            /\ resp' = create_error_response(413,
                   "Audio too large. Maximum base64 length: " \o NatStr(get_max_base64_length))
       ELSE /\ pc' = "step2"
            /\ resp' = resp
    /\ UNCHANGED <<libVars, cfgVars, rng, entry, reqVars, localVars, detVars, calls>>

\* Step 2: base64.b64decode (lines 133-138)
Step2 ==
    /\ pc = "step2"
    /\ calls' = [calls EXCEPT !.b64decode = @ + 1]
    /\ LET d == b64decode(body.audioBase64)
       IN IF d.ok
          THEN /\ pc' = "step3"
               /\ mp3_bytes' = d.nbytes
               /\ resp' = resp
          ELSE /\ pc' = "done"
               /\ mp3_bytes' = mp3_bytes
               /\ resp' = create_error_response(400,
                              "Invalid base64 encoding in audioBase64 field.")
    /\ UNCHANGED <<libVars, cfgVars, rng, entry, reqVars, waveform, qc_metrics, gate, detVars>>

\* Step 3: decoded size (lines 140-149)
Step3 ==
    /\ pc = "step3"
    /\ IF mp3_bytes > MAX_MP3_BYTES
       THEN /\ pc' = "done"
            /\ resp' = create_error_response(413,
                   "Audio file too large. Maximum size: " \o NatStr(MAX_MP3_BYTES) \o " bytes.")
       ELSE IF mp3_bytes = 0
       THEN /\ pc' = "done"
            /\ resp' = create_error_response(400, "Empty audio data provided.")
       ELSE /\ pc' = "step4"
            /\ resp' = resp
    /\ UNCHANGED <<libVars, cfgVars, rng, entry, reqVars, localVars, detVars, calls>>

\* Step 4 (lines 151-156): decode_mp3_to_waveform is a coroutine function and
\* the handler calls it without await.  The call only creates a coroutine
\* object, the decoder body never runs, and unpacking the coroutine into
\* (waveform, sr, duration) raises TypeError.  TypeError is not an
\* AudioDecodeError, so the handler's last except clause answers 500.
\* calls.decode counts the calls of decode_mp3_to_waveform.
Step4 ==
    /\ pc = "step4"
    /\ pc' = "done"
    /\ calls' = [calls EXCEPT !.decode = @ + 1]
    /\ resp' = Handler500(Raised("TypeError: cannot unpack non-iterable coroutine object"))
    /\ UNCHANGED <<libVars, cfgVars, rng, entry, reqVars, localVars, detVars>>

\* the response is sent and the call's locals are gone
Finish ==
    /\ pc = "done"
    /\ pc' = "idle"
    /\ entry' = "none"
    /\ hdr' = NoHdr
    /\ body' = NoBody
    /\ payload' = NoPayload
    /\ mp3_bytes' = 0
    /\ waveform' = NoWave
    /\ qc_metrics' = NoQC
    /\ gate' = NoGate
    /\ scores' = NoScores
    /\ rawExplanation' = ""
    /\ all_scores' = <<>>
    /\ result' = NoResult
    /\ resp' = NoResp
    /\ calls' = NoCalls
    /\ UNCHANGED <<libVars, cfgVars, rng>>

Next == Receive \/ Auth \/ Validate \/ Step1 \/ Step2 \/ Step3 \/ Step4 \/ Finish

Spec == Init /\ [][Next]_vars

(***************************************************************************)
(* SpecPipeline: the code behind the decoder.                              *)
(*                                                                         *)
(* EnterHandler puts voice_detection at step 5 with the locals a completed *)
(* decode leaves (waveform, sr, duration); Step5..Step8 are the rest of    *)
(* the handler.  CallPredict, CallHeuristics and CallGate are direct calls *)
(* of detector.predict, _apply_ensemble_heuristics and                     *)
(* is_insufficient_signal.  The registry has no backend name for           *)
(* AASISTEnsembleDetector; here the singleton may hold one, in demo mode   *)
(* or with both models loaded, as load() leaves it.                        *)
(***************************************************************************)
Detectors == {"None", "qc_fallback", "aasist_demo", "aasist_loaded"}

Thresholds == {Pct(50), Pct(90)}

HandlerLanguages == {"Tamil", "English"}

MaxLanguageLen == 150

\* languages handed to predict directly: a supported one, and strings that
\* bring the demo explanation to 200, 201 and more characters
PredictLanguages ==
    {"Tamil"} \cup
    { Repeat("x", n) : n \in { 200 - Len(DemoExplanation(TRUE, "")),
                               201 - Len(DemoExplanation(TRUE, "")),
                               200 - Len(DemoExplanation(FALSE, "")),
                               201 - Len(DemoExplanation(FALSE, "")),
                               MaxLanguageLen } }

PredictWaves ==
    { NoWave, Wave(300, 1000, 0), Wave(300, 0, 100), Wave(1000, 800, 100),
      Wave(1000, 0, 100), Wave(1000, 0, 103), Wave(10000, 0, 120) }

\* softmax output of the two models on one window
WindowScore(orig_fake, ft_real) ==
    [orig_real |-> PROB_ONE - orig_fake, orig_fake |-> orig_fake,
     ft_real |-> ft_real, ft_fake |-> PROB_ONE - ft_real]

OrigFakeGrid ==
    { Pct(0), Pct(10), Pct(14), Pct(15), Pct(40), Pct(50), Pct(51), Pct(85), Pct(86),
      Pct(90), Pct(91), Pct(92), Pct(93), Pct(95), Pct(96), Pct(97), Pct(100) }

FtRealGrid ==
    { Pct(0), Pct(10), Pct(40), Pct(80), Pct(81), Pct(95), Pct(96), Pct(97), Pct(99),
      Pm(995), Pct(100) }

OneWindowGrid == { WindowScore(of, fr) : of \in OrigFakeGrid, fr \in FtRealGrid }

ManyWindowGrid ==
    { WindowScore(Pct(10), Pct(10)), WindowScore(Pct(10), Pct(97)),
      WindowScore(Pct(93), Pct(10)), WindowScore(Pct(97), Pct(97)) }

\* the score sequences the models of detector det can return for n windows
\* (only a detector with loaded models scores windows)
WindowScores(det, n) ==
    IF det # "aasist_loaded" THEN { <<>> }
    ELSE IF n = 1 THEN { <<x>> : x \in OneWindowGrid }
    ELSE [1..n -> ManyWindowGrid]

NumWindows(w) == Len(WindowStarts(WaveLen(w, TARGET_SR), NB_SAMP, AASIST_MAX_WINDOWS))

\* arguments of a direct call of _apply_ensemble_heuristics, also outside [0, 1]
HeuristicsGrid ==
    { [orig_real |-> orr, orig_fake |-> of, ft_real |-> fr, ft_fake |-> PROB_ONE - fr,
       n |-> 0] :
        of \in OrigFakeGrid \cup {0 - Pct(10), Pct(120)},
        fr \in FtRealGrid \cup {0 - Pct(10), Pct(120)},
        orr \in {0 - Pct(20), Pct(40), Pct(130)} }
    \cup
    { [orig_real |-> PROB_ONE - of, orig_fake |-> of, ft_real |-> fr,
       ft_fake |-> PROB_ONE - fr, n |-> 0] : of \in OrigFakeGrid, fr \in FtRealGrid }

QCGrid ==
    [duration_seconds : {0, 499, 500, 501, 999, 1000, 1001},
     rms : {100},
     silence_ratio : {0, 499, 500, 501, 799, 800, 801, 1000},
     clipping_ratio : {0}]

GateArgs == { <<MIN_DURATION_MS, SILENCE_RATIO_THRESHOLD_PM>>, <<1000, 500>> }

PInit ==
    /\ settings \in {[VOICE_API_KEYS |-> "ab,Cd", AASIST_THRESHOLD |-> t] : t \in Thresholds}
    /\ detector \in Detectors
    /\ rng \in RngStart
    /\ entry = "none"
    /\ pc = "idle"
    /\ hdr = NoHdr
    /\ body = NoBody
    /\ payload = NoPayload
    /\ mp3_bytes = 0
    /\ waveform = NoWave
    /\ qc_metrics = NoQC
    /\ gate = NoGate
    /\ scores = NoScores
    /\ rawExplanation = ""
    /\ all_scores = <<>>
    /\ result = NoResult
    /\ resp = NoResp
    /\ calls = NoCalls
    /\ sampler = NoSampler
    /\ fs = NoFiles
    /\ loaders = <<>>
    /\ environ = NoEnviron
    /\ startup = NoStartup

\* voice_detection has decoded the audio of an authenticated, valid request
EnterHandler ==
    /\ pc = "idle"
    /\ \E w \in Waveforms, language \in HandlerLanguages :
          /\ waveform' = w
          /\ payload' = [kind |-> "audio", wave |-> w]
          /\ body' = [language |-> language, audioFormat |-> "mp3",
                      audioBase64 |-> [len |-> 400, pad |-> 0, wellformed |-> TRUE]]
    /\ hdr' = [present |-> TRUE, value |-> "ab"]
    /\ mp3_bytes' = 300
    /\ entry' = "handler"
    /\ pc' = "step5"
    /\ calls' = [NoCalls EXCEPT !.b64decode = 1, !.decode = 1]
    /\ UNCHANGED <<libVars, cfgVars, rng, qc_metrics, gate, detVars, resp>>

\* outcomes of subprocess.run(cmd, input=mp3_bytes, capture_output=True, timeout=60)
FfmpegRuns ==
    { [kind |-> "completed", returncode |-> 1, stderr |-> " Invalid data ", wave |-> NoWave],
      [kind |-> "completed", returncode |-> 1, stderr |-> "", wave |-> NoWave],
      [kind |-> "completed", returncode |-> 0, stderr |-> "", wave |-> NoWave],
      [kind |-> "completed", returncode |-> 0, stderr |-> "", wave |-> Wave(300, 1000, 0)],
      [kind |-> "completed", returncode |-> 0, stderr |-> "", wave |-> Wave(1000, 0, 100)],
      [kind |-> "TimeoutExpired", returncode |-> 0, stderr |-> "", wave |-> NoWave],
      [kind |-> "FileNotFoundError", returncode |-> 0, stderr |-> "", wave |-> NoWave],
      [kind |-> "OSError", returncode |-> 0, stderr |-> "Broken pipe", wave |-> NoWave] }

\* the awaited decoder raises AudioDecodeError inside voice_detection: the
\* except clause of step 4 answers 400 (lines 152-156)
DecodeRaised ==
    /\ pc = "idle"
    /\ \E run \in FfmpegRuns, language \in HandlerLanguages :
          LET r == _decode_mp3_sync(300, run)
          IN /\ r.kind # "ok"
             /\ payload' = [kind |-> "garbage", wave |-> run.wave]
             /\ body' = [language |-> language, audioFormat |-> "mp3",
                         audioBase64 |-> [len |-> 400, pad |-> 0, wellformed |-> TRUE]]
             /\ result' = Raise(r.kind \o ": " \o r.message)
             /\ resp' = create_error_response(400, "Failed to decode MP3: " \o r.message)
    /\ hdr' = [present |-> TRUE, value |-> "ab"]
    /\ mp3_bytes' = 300
    /\ entry' = "handler"
    /\ pc' = "done"
    /\ calls' = [NoCalls EXCEPT !.b64decode = 1, !.decode = 1]
    /\ UNCHANGED <<libVars, cfgVars, rng, waveform, qc_metrics, gate, scores,
                   rawExplanation, all_scores>>

\* variant of step 5: a duration equal to the limit is refused too
Step5_inclusive ==
    /\ pc = "step5"
    /\ IF DecodedDuration(waveform) >= MAX_DURATION_SECONDS * 1000
       THEN /\ pc' = "done"
            /\ resp' = create_error_response(400,
                   "Audio too long (" \o Fmt1f(RoundDiv(DecodedDuration(waveform), 100))
                       \o "s). Maximum: " \o Fmt1f(MAX_DURATION_SECONDS * 10) \o "s.")
       ELSE /\ pc' = "step6"
            /\ resp' = resp
    /\ UNCHANGED <<libVars, cfgVars, rng, entry, reqVars, localVars, detVars, calls>>

\* Step 5: duration limit (lines 158-163)
Step5 ==
    /\ pc = "step5"
    /\ IF DecodedDuration(waveform) > MAX_DURATION_SECONDS * 1000
       THEN /\ pc' = "done"
            /\ resp' = create_error_response(400,
                   "Audio too long (" \o Fmt1f(RoundDiv(DecodedDuration(waveform), 100))
                       \o "s). Maximum: " \o Fmt1f(MAX_DURATION_SECONDS * 10) \o "s.")
       ELSE /\ pc' = "step6"
            /\ resp' = resp
    /\ UNCHANGED <<libVars, cfgVars, rng, entry, reqVars, localVars, detVars, calls>>

\* Step 6: compute_qc_metrics (line 166)
Step6 ==
    /\ pc = "step6"
    /\ qc_metrics' = compute_qc_metrics(waveform, TARGET_SR)
    /\ calls' = [calls EXCEPT !.qc = @ + 1]
    /\ pc' = "step7"
    /\ UNCHANGED <<libVars, cfgVars, rng, entry, reqVars, mp3_bytes, waveform, gate, detVars, resp>>

\* Step 7: the admission gate and the low-confidence response (lines 173-199)
Step7 ==
    /\ pc = "step7"
    /\ LET insufficient == is_insufficient_signal(qc_metrics, MIN_DURATION_MS,
                                                  SILENCE_RATIO_THRESHOLD_PM)
       IN /\ gate' = [called |-> TRUE, min_duration_seconds |-> MIN_DURATION_MS,
                      silence_ratio_threshold |-> SILENCE_RATIO_THRESHOLD_PM,
                      value |-> insufficient]
          /\ IF insufficient
             THEN /\ pc' = "done"
                  /\ resp' = Handler500(ShortCircuitResponse(body.language, qc_metrics))
             ELSE /\ pc' = "step8"
                  /\ resp' = resp
    /\ calls' = [calls EXCEPT !.gate = @ + 1]
    /\ UNCHANGED <<libVars, cfgVars, rng, entry, reqVars, mp3_bytes, waveform, qc_metrics, detVars>>

\* what predict raises when a forward pass of a model fails
INFERENCE_ERROR == Raise("RuntimeError")

\* variant of step 8: a predict that raised is called again
Step8_retrying ==
    /\ pc = "step8"
    /\ pc' = "done"
    /\ IF detector = "None"
       THEN \* get_detector raises RuntimeError
            /\ resp' = Handler500(Raised("RuntimeError: Detector not initialized. "
                                          \o "Call initialize_detector() at app startup."))
            /\ UNCHANGED <<rng, detVars, calls>>
       ELSE \/ \E ws \in WindowScores(detector, NumWindows(waveform)) :
                 LET r == predict(detector, body.language, waveform, qc_metrics, rng, ws,
                                  settings.AASIST_THRESHOLD)
                 IN /\ result' = r.result
                    /\ rawExplanation' = r.raw
                    /\ scores' = r.scores
                    /\ all_scores' = r.all_scores
                    /\ rng' = r.rng
                    /\ calls' = [calls EXCEPT !.predict = @ + 1]
                    /\ resp' = Handler500(DetectorResponse(body.language, r.result))
            \/ \* predict is called a second time after it raised
               /\ detector = "aasist_loaded"
               /\ \E ws \in WindowScores(detector, NumWindows(waveform)) :
                     LET r == predict(detector, body.language, waveform, qc_metrics, rng,
                                      ws, settings.AASIST_THRESHOLD)
                     IN /\ result' = r.result
                        /\ rawExplanation' = r.raw
                        /\ scores' = r.scores
                        /\ all_scores' = r.all_scores
                        /\ rng' = r.rng
                        /\ calls' = [calls EXCEPT !.predict = @ + 2]
                        /\ resp' = Handler500(DetectorResponse(body.language, r.result))
    /\ UNCHANGED <<libVars, cfgVars, entry, reqVars, localVars>>

\* Step 8: get_detector(), detector.predict and the response (lines 201-229)
Step8 ==
    /\ pc = "step8"
    /\ pc' = "done"
    /\ IF detector = "None"
       THEN \* get_detector raises RuntimeError
            /\ resp' = Handler500(Raised("RuntimeError: Detector not initialized. "
                                          \o "Call initialize_detector() at app startup."))
            /\ UNCHANGED <<rng, detVars, calls>>
       ELSE \/ \E ws \in WindowScores(detector, NumWindows(waveform)) :
                 LET r == predict(detector, body.language, waveform, qc_metrics, rng, ws,
                                  settings.AASIST_THRESHOLD)
                 IN /\ result' = r.result
                    /\ rawExplanation' = r.raw
                    /\ scores' = r.scores
                    /\ all_scores' = r.all_scores
                    /\ rng' = r.rng
                    /\ calls' = [calls EXCEPT !.predict = @ + 1]
                    /\ resp' = Handler500(DetectorResponse(body.language, r.result))
            \/ \* a forward pass of a model raises inside predict (lines 146-159)
               /\ detector = "aasist_loaded"
               /\ result' = INFERENCE_ERROR
               /\ rawExplanation' = ""
               /\ scores' = NoScores
               /\ all_scores' = <<>>
               /\ rng' = rng
               /\ calls' = [calls EXCEPT !.predict = @ + 1]
               /\ resp' = Handler500(DetectorResponse(body.language, INFERENCE_ERROR))
    /\ UNCHANGED <<libVars, cfgVars, entry, reqVars, localVars>>

\* detector.predict(language, mp3_bytes, waveform, sr, qc) called directly
CallPredict ==
    /\ pc = "idle"
    /\ detector # "None"
    /\ \E language \in PredictLanguages, w \in PredictWaves :
          \E ws \in WindowScores(detector, IF w = NoWave THEN 1 ELSE NumWindows(w)) :
             LET qc == compute_qc_metrics(w, TARGET_SR)
                 r == predict(detector, language, w, qc, rng, ws, settings.AASIST_THRESHOLD)
             IN /\ body' = [NoBody EXCEPT !.language = language]
                /\ waveform' = w
                /\ qc_metrics' = qc
                /\ result' = r.result
                /\ rawExplanation' = r.raw
                /\ scores' = r.scores
                /\ all_scores' = r.all_scores
                /\ rng' = r.rng
    /\ entry' = "predict"
    /\ pc' = "done"
    /\ calls' = [NoCalls EXCEPT !.predict = 1]
    /\ UNCHANGED <<libVars, cfgVars, hdr, payload, mp3_bytes, gate, resp>>

\* _apply_ensemble_heuristics(orig_real, orig_fake, ft_real, ft_fake, language)
\* called directly
CallHeuristics ==
    /\ pc = "idle"
    /\ detector \in {"aasist_demo", "aasist_loaded"}
    /\ \E a \in HeuristicsGrid :
          LET rule == EnsembleRule(a.orig_real, a.orig_fake, a.ft_real, a.ft_fake,
                                   settings.AASIST_THRESHOLD)
          IN /\ scores' = a
             /\ result' = _apply_ensemble_heuristics(a.orig_real, a.orig_fake, a.ft_real,
                              a.ft_fake, "Tamil", settings.AASIST_THRESHOLD)
             /\ rawExplanation' =
                    EnsembleExplanation(rule.detected_pattern, a.orig_fake, a.ft_real)
    /\ all_scores' = <<>>
    /\ body' = [NoBody EXCEPT !.language = "Tamil"]
    /\ entry' = "heuristics"
    /\ pc' = "done"
    /\ UNCHANGED <<libVars, cfgVars, rng, hdr, payload, localVars, resp, calls>>

\* is_insufficient_signal(qc_metrics, min_duration_seconds, silence_ratio_threshold)
\* called directly
CallGate ==
    /\ pc = "idle"
    /\ \E qc \in QCGrid, a \in GateArgs :
          /\ qc_metrics' = qc
          /\ gate' = [called |-> TRUE, min_duration_seconds |-> a[1],
                      silence_ratio_threshold |-> a[2],
                      value |-> is_insufficient_signal(qc, a[1], a[2])]
    /\ entry' = "gate"
    /\ pc' = "done"
    /\ calls' = [NoCalls EXCEPT !.gate = 1]
    /\ UNCHANGED <<libVars, cfgVars, rng, reqVars, mp3_bytes, waveform, detVars, resp>>

\* await decode_mp3_to_waveform(mp3_bytes) called directly
CallDecode ==
    /\ pc = "idle"
    /\ \E nbytes \in {0, 300}, run \in FfmpegRuns :
          LET r == _decode_mp3_sync(nbytes, run)
          IN /\ mp3_bytes' = nbytes
             /\ payload' = [kind |-> IF r.kind = "ok" THEN "audio" ELSE "garbage",
                            wave |-> run.wave]
             /\ waveform' = r.wave
             /\ result' = IF r.kind = "ok" THEN NoResult
                          ELSE Raise(r.kind \o ": " \o r.message)
    /\ entry' = "decode"
    /\ pc' = "done"
    /\ calls' = [NoCalls EXCEPT !.decode = 1]
    /\ UNCHANGED <<libVars, cfgVars, rng, hdr, body, qc_metrics, gate, scores,
                   rawExplanation, all_scores, resp>>

PNext ==
    \/ EnterHandler \/ DecodeRaised \/ Step5 \/ Step6 \/ Step7 \/ Step8
    \/ CallPredict \/ CallHeuristics \/ CallGate \/ CallDecode \/ Finish

SpecPipeline == PInit /\ [][PNext]_vars

(***************************************************************************)
(* SpecWindows: _get_audio_windows called on small waveforms.  The samples *)
(* of a waveform are numbered by their position, which shows where every   *)
(* sample of a window comes from.                                          *)
(***************************************************************************)
MaxWaveLen == 9

MaxTargetLen == 4

MaxWindowsArg == 3

SamplerWaveforms == { [j \in 1..len |-> j] : len \in 0..MaxWaveLen }

SInit ==
    /\ settings = [VOICE_API_KEYS |-> "ab", AASIST_THRESHOLD |-> Pct(50)]
    /\ detector = "aasist_loaded"
    /\ rng = 0
    /\ entry = "none"
    /\ pc = "idle"
    /\ hdr = NoHdr
    /\ body = NoBody
    /\ payload = NoPayload
    /\ mp3_bytes = 0
    /\ waveform = NoWave
    /\ qc_metrics = NoQC
    /\ gate = NoGate
    /\ scores = NoScores
    /\ rawExplanation = ""
    /\ all_scores = <<>>
    /\ result = NoResult
    /\ resp = NoResp
    /\ calls = NoCalls
    /\ sampler = NoSampler
    /\ fs = NoFiles
    /\ loaders = <<>>
    /\ environ = NoEnviron
    /\ startup = NoStartup

\* self._get_audio_windows(waveform) with nb_samp and AASIST_MAX_WINDOWS as set
CallWindows ==
    /\ pc = "idle"
    /\ \E w \in SamplerWaveforms, nb_samp \in 1..MaxTargetLen,
          max_windows \in 1..MaxWindowsArg :
          LET r == _get_audio_windows(w, nb_samp, max_windows)
          IN sampler' = [called |-> TRUE, waveform |-> w, nb_samp |-> nb_samp,
                         max_windows |-> max_windows, raised |-> r.raised,
                         windows |-> r.windows, computed |-> r.computed,
                         fallback |-> r.fallback]
    /\ entry' = "windows"
    /\ pc' = "done"
    /\ UNCHANGED <<settings, detector, fs, loaders, environ, startup, rng, reqVars, localVars, detVars,
                   resp, calls>>

SNext == CallWindows \/ Finish

SpecWindows == SInit /\ [][SNext]_vars

(***************************************************************************)
(* SpecWeights: processes calling download_weights(gcs_uri, local_path)     *)
(* with the same non-empty gcs_uri and the same local_path.                *)
(*                                                                         *)
(* fs.lock says whether local_path.lock exists; fs.tmp and fs.local are    *)
(* the inodes that local_path.tmp and local_path name (0: no such file);   *)
(* fs.inodes[k] is the set of chunks of the blob written to inode k so far. *)
(* A file is complete when it holds all the chunks; its size is the        *)
(* position of the last chunk written.  Every step is one system call.     *)
(***************************************************************************)
NumLoaders == 2

NChunks == 2

MAX_WAIT == 300

POLL_SECONDS == 5

Loaders == 1..NumLoaders

Chunks == 1..NChunks

NoLoader == [pc |-> "idle", wait_time |-> 0, fd |-> 0, pos |-> 0, outcome |-> "",
             touched |-> FALSE, created |-> FALSE]

\* st_size of a file with the chunks of `content` written
Size(content) == IF content = {} THEN 0 ELSE CHOOSE k \in content : \A m \in content : m <= k

\* local_path.exists() and local_path.stat().st_size > 0
Cached(files) == files.local # 0 /\ Size(files.inodes[files.local]) > 0

\* blob.download_to_filename(str(tmp_path)) opens the file with mode "wb":
\* an existing file is truncated, a missing one is created
OpenForWrite(files) ==
    IF files.tmp # 0
    THEN [files |-> [files EXCEPT !.inodes[files.tmp] = {}], fd |-> files.tmp]
    ELSE [files |-> [files EXCEPT !.inodes = Append(@, {}), !.tmp = Len(files.inodes) + 1],
          fd |-> Len(files.inodes) + 1]

WInit ==
    /\ settings = [VOICE_API_KEYS |-> "ab", AASIST_THRESHOLD |-> Pct(50)]
    /\ detector = "None"
    /\ rng = 0
    /\ entry = "none"
    /\ pc = "idle"
    /\ hdr = NoHdr
    /\ body = NoBody
    /\ payload = NoPayload
    /\ mp3_bytes = 0
    /\ waveform = NoWave
    /\ qc_metrics = NoQC
    /\ gate = NoGate
    /\ scores = NoScores
    /\ rawExplanation = ""
    /\ all_scores = <<>>
    /\ result = NoResult
    /\ resp = NoResp
    /\ calls = NoCalls
    /\ sampler = NoSampler
    /\ fs \in { NoFiles,
                [NoFiles EXCEPT !.lock = TRUE],
                [NoFiles EXCEPT !.local = 1, !.inodes = << Chunks >>] }
    /\ loaders = [i \in Loaders |-> NoLoader]
    /\ environ = NoEnviron
    /\ startup = NoStartup

restVars == <<settings, detector, rng, entry, pc, reqVars, localVars, detVars, resp, calls,
              sampler, environ, startup>>

\* download_weights is called (lines 47-72)
StartDownload(i) ==
    /\ loaders[i].pc = "idle"
    /\ loaders' = [loaders EXCEPT ![i].pc = "check_cached"]
    /\ UNCHANGED <<fs, restVars>>

\* download_weights without lines 74-77
CheckCached_skipped(i) ==
    /\ loaders[i].pc = "check_cached"
    /\ loaders' = [loaders EXCEPT ![i].pc = "wait_test"]
    /\ UNCHANGED <<fs, restVars>>

\* "Check if already downloaded" (lines 74-77)
CheckCached(i) ==
    /\ loaders[i].pc = "check_cached"
    /\ loaders' = IF Cached(fs)
                  THEN [loaders EXCEPT ![i].pc = "done", ![i].outcome = "cached"]
                  ELSE [loaders EXCEPT ![i].pc = "wait_test"]
    /\ UNCHANGED <<fs, restVars>>

\* while lock_path.exists() and wait_time < max_wait (line 86)
WaitTest(i) ==
    /\ loaders[i].pc = "wait_test"
    /\ loaders' = IF fs.lock /\ loaders[i].wait_time < MAX_WAIT
                  THEN [loaders EXCEPT ![i].pc = "sleep"]
                  ELSE [loaders EXCEPT ![i].pc = "touch", ![i].wait_time = 0]
    /\ UNCHANGED <<fs, restVars>>

\* Sleep without line 89: the time waited is never counted
Sleep_uncounted(i) ==
    /\ loaders[i].pc = "sleep"
    /\ loaders' = IF Cached(fs)
                  THEN [loaders EXCEPT ![i].pc = "done", ![i].outcome = "cached while waiting",
                                       ![i].wait_time = 0]
                  ELSE [loaders EXCEPT ![i].pc = "wait_test"]
    /\ UNCHANGED <<fs, restVars>>

\* time.sleep(5); wait_time += 5; return if the file is there (lines 87-94)
Sleep(i) ==
    /\ loaders[i].pc = "sleep"
    /\ loaders' = IF Cached(fs)
                  THEN [loaders EXCEPT ![i].pc = "done", ![i].outcome = "cached while waiting",
                                       ![i].wait_time = 0]
                  ELSE [loaders EXCEPT ![i].pc = "wait_test",
                                       ![i].wait_time = @ + POLL_SECONDS]
    /\ UNCHANGED <<fs, restVars>>

\* lock_path.touch() (line 98): creates the file or, if it exists, succeeds too
Touch(i) ==
    /\ loaders[i].pc = "touch"
    /\ fs' = [fs EXCEPT !.lock = TRUE]
    /\ loaders' = [loaders EXCEPT ![i].pc = "check_again", ![i].touched = TRUE,
                                  ![i].created = ~fs.lock]
    /\ UNCHANGED restVars

\* "Check again after acquiring lock" (lines 100-103)
CheckAgain(i) ==
    /\ loaders[i].pc = "check_again"
    /\ loaders' = IF Cached(fs)
                  THEN [loaders EXCEPT ![i].pc = "finally", ![i].outcome = "cached"]
                  ELSE [loaders EXCEPT ![i].pc = "open"]
    /\ UNCHANGED <<fs, restVars>>

\* blob.download_to_filename opens tmp_path (line 125)
OpenTmp(i) ==
    /\ loaders[i].pc = "open"
    /\ LET o == OpenForWrite(fs)
       IN /\ fs' = o.files
          /\ loaders' = [loaders EXCEPT ![i].pc = "write", ![i].fd = o.fd, ![i].pos = 0]
    /\ UNCHANGED restVars

\* blob.download_to_filename writes the next chunk to its file (line 125)
WriteChunk(i) ==
    /\ loaders[i].pc = "write"
    /\ LET l == loaders[i]
       IN /\ fs' = [fs EXCEPT !.inodes[l.fd] = @ \cup {l.pos + 1}]
          /\ loaders' = [loaders EXCEPT ![i].pos = l.pos + 1,
                            ![i].pc = IF l.pos + 1 = NChunks THEN "rename" ELSE "write"]
    /\ UNCHANGED restVars

\* the client, the bucket or the transfer raises (lines 105-125)
DownloadFail(i) ==
    /\ loaders[i].pc \in {"open", "write"}
    /\ loaders' = [loaders EXCEPT ![i].pc = "except"]
    /\ UNCHANGED <<fs, restVars>>

\* tmp_path.rename(local_path) (line 128); FileNotFoundError without tmp_path
Rename(i) ==
    /\ loaders[i].pc = "rename"
    /\ IF fs.tmp = 0
       THEN /\ fs' = fs
            /\ loaders' = [loaders EXCEPT ![i].pc = "except"]
       ELSE /\ fs' = [fs EXCEPT !.local = fs.tmp, !.tmp = 0]
            /\ loaders' = [loaders EXCEPT ![i].pc = "finally", ![i].outcome = "downloaded"]
    /\ UNCHANGED restVars

\* except Exception: if tmp_path.exists() (lines 138-140); without the file
\* RuntimeError is raised at once (line 142)
Except(i) ==
    /\ loaders[i].pc = "except"
    /\ loaders' = IF fs.tmp # 0
                  THEN [loaders EXCEPT ![i].pc = "except_unlink"]
                  ELSE [loaders EXCEPT ![i].pc = "finally", ![i].outcome = "RuntimeError"]
    /\ UNCHANGED <<fs, restVars>>

\* tmp_path.unlink() and raise RuntimeError (lines 141-142); unlink raises
\* FileNotFoundError, which leaves the function instead, when the file has
\* gone since line 140
ExceptUnlink(i) ==
    /\ loaders[i].pc = "except_unlink"
    /\ fs' = [fs EXCEPT !.tmp = 0]
    /\ loaders' = [loaders EXCEPT ![i].pc = "finally",
                      ![i].outcome = IF fs.tmp # 0 THEN "RuntimeError"
                                     ELSE "FileNotFoundError"]
    /\ UNCHANGED restVars

\* finally: remove lock_path if it exists (lines 144-150)
Finally(i) ==
    /\ loaders[i].pc = "finally"
    /\ fs' = [fs EXCEPT !.lock = FALSE]
    /\ loaders' = [loaders EXCEPT ![i].pc = "done"]
    /\ UNCHANGED restVars

WNext ==
    \E i \in Loaders :
        \/ StartDownload(i) \/ CheckCached(i) \/ WaitTest(i) \/ Sleep(i) \/ Touch(i)
        \/ CheckAgain(i) \/ OpenTmp(i) \/ WriteChunk(i) \/ DownloadFail(i) \/ Rename(i)
        \/ Except(i) \/ ExceptUnlink(i) \/ Finally(i)

SpecWeights == WInit /\ [][WNext]_vars

\* Each loader is a running process of its own: the operating system keeps
\* scheduling it, and a call it makes (sleep, a file operation, a transfer
\* from the bucket) returns or raises.
LoaderStep(i) ==
    \/ StartDownload(i) \/ CheckCached(i) \/ WaitTest(i) \/ Sleep(i) \/ Touch(i)
    \/ CheckAgain(i) \/ OpenTmp(i) \/ WriteChunk(i) \/ DownloadFail(i) \/ Rename(i)
    \/ Except(i) \/ ExceptUnlink(i) \/ Finally(i)

SpecWeightsFair == SpecWeights /\ \A i \in Loaders : WF_vars(LoaderStep(i))

(***************************************************************************)
(* SpecRegistry: the detector registry and the start of the application.   *)
(*                                                                         *)
(* A process is started with some value of DETECTOR_BACKEND in its         *)
(* environment.  Either the application is started in it (Lifespan: the    *)
(* code of api.lifespan before the yield; when it raises the server exits) *)
(* or the registry is used without it, as the tests do: initialize_detector,*)
(* get_detector and reset_detector called in any order.                    *)
(***************************************************************************)
\* the backend names initialize_detector knows (registry.py lines 52-74)
BackendNames == {"qc_fallback", "dsp", "ssl", "antispoof", "ensemble", "external"}

\* detector.load() of the class registered under `backend`: "" when it
\* returns, the message of the NotImplementedError it raises otherwise
load(backend) ==
    CASE backend = "qc_fallback" -> ""
      [] backend = "dsp" ->
            "DSP detector not implemented. "
                \o "Implement spectral and prosodic feature extraction in this class."
      [] backend = "ssl" ->
            "SSL detector not implemented. "
                \o "Implement Wav2Vec2/HuBERT-based feature extraction and classification."
      [] backend = "antispoof" ->
            "Antispoof detector not implemented. "
                \o "Implement AASIST/RawNet2-based spoofing detection."
      [] backend = "ensemble" ->
            "Ensemble detector not implemented. "
                \o "Implement multi-model ensemble with weighted fusion."
      [] backend = "external" ->
            "External detector not implemented. "
                \o "Implement HTTP client for external inference API."

\* initialize_detector(backend) with the singleton holding `instance`:
\* what it raises ("" when it returns) and what the singleton holds after
initialize_detector(backend, instance) ==
    IF backend \notin BackendNames
    THEN [raised |-> "ValueError",
          message |-> "Unknown detector backend: " \o backend \o ". Valid options: "
                          \o "qc_fallback, dsp, ssl, antispoof, ensemble, external",
          instance |-> instance]
    ELSE IF load(backend) # ""
    THEN [raised |-> "NotImplementedError", message |-> load(backend),
          instance |-> instance]
    ELSE [raised |-> "", message |-> "", instance |-> backend]

\* get_detector() with the singleton holding `instance`
get_detector(instance) ==
    IF instance = "None"
    THEN [raised |-> "RuntimeError",
          message |-> "Detector not initialized. "
                          \o "Call initialize_detector() at app startup.",
          instance |-> instance]
    ELSE [raised |-> "", message |-> "", instance |-> instance]

\* reset_detector()
reset_detector(instance) == [raised |-> "", message |-> "", instance |-> "None"]

\* the fields class Settings declares (config.py lines 19-65); with
\* extra="ignore" a variable of the environment that is no field is dropped
SettingsFields ==
    {"PROJECT_NAME", "ENABLE_DOCS", "VOICE_API_KEYS", "AASIST_DEVICE",
     "AASIST_ORIG_WEIGHTS_GCS_URI", "AASIST_FT_WEIGHTS_GCS_URI",
     "AASIST_ORIG_CACHE_PATH", "AASIST_FT_CACHE_PATH", "AASIST_THRESHOLD",
     "AASIST_MAX_WINDOWS", "MAX_MP3_BYTES", "MAX_DURATION_SECONDS",
     "MIN_DURATION_SECONDS", "SILENCE_RATIO_THRESHOLD", "PORT"}

\* api.lifespan up to its yield, in a process with environment env and the
\* singleton holding `instance`
lifespan(env, instance) ==
    IF "DETECTOR_BACKEND" \notin SettingsFields
    THEN \* settings.DETECTOR_BACKEND at line 32, before the try
         [raised |-> "AttributeError",
          message |-> "'Settings' object has no attribute 'DETECTOR_BACKEND'",
          instance |-> instance]
    ELSE LET backend == env.DETECTOR_BACKEND
             r == initialize_detector(backend, instance)
         IN IF r.raised = "NotImplementedError"
            THEN IF backend # "qc_fallback"
                 THEN initialize_detector("qc_fallback", r.instance)
                 ELSE [r EXCEPT !.raised = "", !.message = ""]
            ELSE r

\* what a call that raised or returned leaves in `result`
Outcome(r) ==
    IF r.raised # "" THEN Raise(r.raised \o ": " \o r.message)
    ELSE [NoResult EXCEPT !.kind = "ok"]

Environments ==
    { [DETECTOR_BACKEND |-> b] : b \in BackendNames \cup {"(unset)", "aasist"} }

RInit ==
    /\ settings = [VOICE_API_KEYS |-> "ab", AASIST_THRESHOLD |-> Pct(50)]
    /\ detector = "None"
    /\ rng = 0
    /\ entry = "none"
    /\ pc = "idle"
    /\ hdr = NoHdr
    /\ body = NoBody
    /\ payload = NoPayload
    /\ mp3_bytes = 0
    /\ waveform = NoWave
    /\ qc_metrics = NoQC
    /\ gate = NoGate
    /\ scores = NoScores
    /\ rawExplanation = ""
    /\ all_scores = <<>>
    /\ result = NoResult
    /\ resp = NoResp
    /\ calls = NoCalls
    /\ sampler = NoSampler
    /\ fs = NoFiles
    /\ loaders = <<>>
    /\ environ \in Environments
    /\ startup = NoStartup

regVars == <<settings, rng, reqVars, localVars, scores, rawExplanation, all_scores, resp,
             calls, sampler, fs, loaders, environ>>

\* the server starts the application: lifespan runs once, before any request
Lifespan ==
    /\ pc = "idle"
    /\ entry = "none"
    /\ ~startup.ran
    /\ detector = "None"
    /\ LET r == lifespan(environ, detector)
       IN /\ detector' = r.instance
          /\ result' = Outcome(r)
          /\ startup' = [ran |-> TRUE, raised |-> r.raised]
    /\ entry' = "lifespan"
    /\ pc' = "done"
    /\ UNCHANGED regVars

\* initialize_detector(backend) called directly
CallInitialize ==
    /\ pc = "idle"
    /\ ~startup.ran
    /\ \E backend \in BackendNames \cup {"aasist", ""} :
          LET r == initialize_detector(backend, detector)
          IN /\ detector' = r.instance
             /\ result' = Outcome(r)
    /\ entry' = "initialize_detector"
    /\ pc' = "done"
    /\ UNCHANGED <<regVars, startup>>

\* get_detector() called directly
CallGet ==
    /\ pc = "idle"
    /\ ~startup.ran
    /\ LET r == get_detector(detector)
       IN /\ detector' = r.instance
          /\ result' = Outcome(r)
    /\ entry' = "get_detector"
    /\ pc' = "done"
    /\ UNCHANGED <<regVars, startup>>

\* reset_detector() called directly
CallReset ==
    /\ pc = "idle"
    /\ ~startup.ran
    /\ LET r == reset_detector(detector)
       IN /\ detector' = r.instance
          /\ result' = Outcome(r)
    /\ entry' = "reset_detector"
    /\ pc' = "done"
    /\ UNCHANGED <<regVars, startup>>

\* the call has returned or raised; a server whose lifespan raised has exited
Return ==
    /\ pc = "done"
    /\ startup.raised = ""
    /\ Finish

RNext == Lifespan \/ CallInitialize \/ CallGet \/ CallReset \/ Return

SpecRegistry == RInit /\ [][RNext]_vars

(***************************************************************************)
(* Properties                                                              *)
(***************************************************************************)
\* the handler has run the admission gate for the current request
GateRan == entry = "handler" /\ gate.called

\* the admission condition in the words of the contract
InsufficientSignal ==
    \/ qc_metrics.duration_seconds < MIN_DURATION_MS
    \/ qc_metrics.silence_ratio >= SILENCE_RATIO_THRESHOLD_PM

\* C1: a request that reaches the admission gate with a duration below
\* MIN_DURATION_SECONDS or a silence ratio of at least SILENCE_RATIO_THRESHOLD
\* is answered at once with a success response classified HUMAN, and the
\* detector's predict is not invoked for it.
C1_ShortCircuit ==
    (GateRan /\ InsufficientSignal) =>
        /\ pc = "done"
        /\ resp.code = 200
        /\ resp.status = "success"
        /\ resp.classification = "HUMAN"
        /\ calls.predict = 0
        /\ result = NoResult

C1_Witness ==
    /\ GateRan
    /\ pc = "done"
    /\ qc_metrics.duration_seconds >= MIN_DURATION_MS
    /\ qc_metrics.silence_ratio = SILENCE_RATIO_THRESHOLD_PM
    /\ resp.classification = "HUMAN"
    /\ detector = "aasist_loaded"

\* C2 (as claimed): whenever the gate reports insufficient signal the
\* confidence of the response is 0.50 + rms*0.5 clamped to [0.50, 0.55], for
\* every RMS in [0, 1].
C2_ConfidenceBand ==
    (GateRan /\ InsufficientSignal /\ pc = "done") =>
        /\ resp.confidenceScore >= 50
        /\ resp.confidenceScore <= 55
        /\ resp.confidenceScore = Max(50, Min(55, RoundDiv(1000 + qc_metrics.rms, 20)))

\* C3 (as claimed): a request with a valid key, a supported language, format
\* mp3 and valid base64 whose audio is a silent waveform shorter than
\* MIN_DURATION_SECONDS ends with a success response: HUMAN, confidence in
\* [0.50, 0.55], explanation mentioning the duration.
C3_SilentShortClip ==
    ( /\ entry = "request"
      /\ pc = "done"
      /\ verify_api_key(hdr, settings.VOICE_API_KEYS).ok
      /\ ValidBody(body)
      /\ b64decode(body.audioBase64).ok
      /\ b64decode(body.audioBase64).nbytes \in 1..MAX_MP3_BYTES
      /\ payload.kind = "audio"
      /\ payload.wave.rms = 0
      /\ DecodedDuration(payload.wave) < MIN_DURATION_MS )
    => /\ resp.status = "success"
       /\ resp.classification = "HUMAN"
       /\ resp.confidenceScore \in 50..55
       /\ Contains(resp.explanation,
                   "Audio too short ("
                       \o Fmt2f(RoundDiv(DecodedDuration(payload.wave), 10)) \o "s)")

\* the configured keys: the comma-separated entries of VOICE_API_KEYS, without
\* the blanks around them
ConfiguredKeys(VOICE_API_KEYS) ==
    { Strip(Split(VOICE_API_KEYS)[i]) : i \in 1..Len(Split(VOICE_API_KEYS)) }

\* C4: a request gets past authentication exactly when its x-api-key header is
\* present, non-empty and equal, ignoring case, to one of the configured keys;
\* every other request is answered 401, and for it neither base64 decoding,
\* audio decoding nor the detector has run.
C4_Authentication ==
    (entry = "request" /\ pc # "auth") =>
        LET rejected == pc = "done" /\ resp.code = 401
            authorized ==
                /\ hdr.present
                /\ hdr.value # ""
                /\ \E k \in ConfiguredKeys(settings.VOICE_API_KEYS) :
                      Lower(k) = Lower(hdr.value)
        IN /\ authorized <=> ~rejected
           /\ rejected => /\ resp.status = "error"
                          /\ calls.b64decode = 0
                          /\ calls.decode = 0
                          /\ calls.predict = 0
                          /\ mp3_bytes = 0

C4_Witness ==
    /\ entry = "request"
    /\ pc = "step2"
    /\ hdr.value = "cd"
    /\ settings.VOICE_API_KEYS = "ab,Cd"

\* the decision engine has produced the current result from `scores`
Decided ==
    /\ pc = "done"
    /\ result.kind = "ok"
    /\ \/ entry = "heuristics"
       \/ entry \in {"handler", "predict"} /\ detector = "aasist_loaded"

\* the five-rule table of the contract: does rule k match?
TableMatches(k) ==
    CASE k = 1 -> scores.orig_fake > Pct(95) /\ scores.ft_real > Pct(95)
      [] k = 2 -> scores.orig_fake < Pct(15) /\ scores.ft_real > Pct(80)
      [] k = 3 -> scores.orig_fake > Pct(92)
      [] k = 4 -> scores.orig_fake > Pct(85) /\ scores.ft_real > Pct(95)
      [] OTHER -> TRUE

\* the first rule that matches
TableRule == CHOOSE k \in 1..5 : TableMatches(k) /\ \A j \in 1..(k - 1) : ~TableMatches(j)

\* classification and confidence the table gives for rule k
TableVerdict(k) ==
    CASE k = 1 -> <<"HUMAN", scores.ft_real>>
      [] k = 2 -> <<"AI_GENERATED", PROB_ONE - scores.orig_fake>>
      [] k = 3 -> <<"AI_GENERATED", scores.orig_fake>>
      [] k = 4 -> <<"HUMAN", scores.ft_real>>
      [] OTHER -> IF scores.ft_real > Pct(99) /\ scores.orig_fake < Pct(91)
                  THEN <<"HUMAN", scores.ft_real>>
                  ELSE IF scores.orig_fake > settings.AASIST_THRESHOLD
                  THEN <<"AI_GENERATED", scores.orig_fake>>
                  ELSE <<"HUMAN", scores.orig_real>>

\* the names under which the explanation reports rule k
RuleNames(k) ==
    CASE k = 1 -> {"Indian REAL (inverted detection)"}
      [] k = 2 -> {"Indian FAKE (inverted detection)"}
      [] k = 3 -> {"English FAKE (direct detection)"}
      [] k = 4 -> {"English REAL (threshold)"}
      [] OTHER -> {"Default REAL (fine-tuned confident)", "Default (weighted)"}

\* the rules the explanation names
NamedRules ==
    { k \in 1..5 : \E name \in RuleNames(k) :
                      Contains(rawExplanation, "Ensemble: " \o name \o ". ") }

Clamp01(p) == IF p < 0 THEN 0 ELSE IF p > PROB_ONE THEN PROB_ONE ELSE p

\* C5: for every (orig.fake, orig.real, ft.real) of the grid and every
\* threshold, the ensemble verdict is the one the five-rule table gives when its
\* rules are tried in order and the first match wins (the confidence clamped to
\* [0, 1], which changes no probability), and exactly one rule is selected.
C5_RuleTable ==
    Decided =>
        /\ result.classification = TableVerdict(TableRule)[1]
        /\ result.confidenceScore = Clamp01(TableVerdict(TableRule)[2])
        /\ NamedRules = {TableRule}

C5_Witness ==
    /\ Decided
    /\ entry = "heuristics"
    /\ scores.orig_fake = Pct(40)
    /\ scores.ft_real = Pct(40)
    /\ scores.orig_real = Pct(60)
    /\ settings.AASIST_THRESHOLD = Pct(50)
    /\ result.classification = "HUMAN"
    /\ result.confidenceScore = Pct(60)

\* C6: whenever orig.fake > 0.92 the verdict is HUMAN only if orig.fake > 0.95
\* and ft.real > 0.95; otherwise it is AI_GENERATED with confidence orig.fake
\* (at most 1), whatever ft.real is.  Rule 4 decides only when
\* 0.85 < orig.fake <= 0.92.
C6_Rule3Preempts ==
    Decided =>
        /\ scores.orig_fake > Pct(92) =>
              IF scores.orig_fake > Pct(95) /\ scores.ft_real > Pct(95)
              THEN result.classification = "HUMAN"
              ELSE /\ result.classification = "AI_GENERATED"
                   /\ result.confidenceScore = Min(PROB_ONE, scores.orig_fake)
        /\ 4 \in NamedRules =>
              scores.orig_fake > Pct(85) /\ scores.orig_fake <= Pct(92)

C6_Witness ==
    /\ Decided
    /\ scores.orig_fake = Pct(93)
    /\ scores.ft_real = Pct(96)
    /\ result.classification = "AI_GENERATED"
    /\ result.confidenceScore = Pct(93)

\* C7: the confidenceScore of every success response lies in [0, 1], and so
\* does the confidence of every verdict a detector returns; the decision engine
\* returns such a verdict also for aggregated probabilities outside [0, 1].
C7_ConfidenceRange ==
    /\ resp.status = "success" => resp.confidenceScore \in 0..100
    /\ result.kind = "ok" => result.confidenceScore \in 0..PROB_ONE
    /\ (entry = "heuristics" /\ pc = "done") => result.kind = "ok"

C7_Witness ==
    /\ entry = "heuristics"
    /\ pc = "done"
    /\ scores.orig_fake = Pct(96)
    /\ scores.ft_real = Pct(120)
    /\ result.kind = "ok"
    /\ result.confidenceScore = PROB_ONE

\* C8: the explanation of every verdict is at most 200 characters long: one
\* built longer is cut to its first 197 characters followed by "...", one of
\* 200 characters or fewer is left as built.
C8_ExplanationLength ==
    /\ result.kind = "ok" =>
          /\ Len(result.explanation) <= 200
          /\ Len(rawExplanation) > 200 =>
                result.explanation = SubSeq(rawExplanation, 1, 197) \o "..."
          /\ Len(rawExplanation) <= 200 => result.explanation = rawExplanation
    /\ resp.status = "success" => Len(resp.explanation) <= 200

C8_Witness ==
    /\ entry = "predict"
    /\ pc = "done"
    /\ result.kind = "ok"
    /\ Len(rawExplanation) = 201
    /\ Len(result.explanation) = 200

C10_ExplanationNamesCondition ==
    (GateRan /\ pc = "done" /\ gate.value /\ resp.status = "success") =>
        LET short == Contains(resp.explanation, "Audio too short (")
            silent == Contains(resp.explanation, "High silence ratio (")
        IN /\ short <=> qc_metrics.duration_seconds < MIN_DURATION_MS
           /\ silent <=> /\ qc_metrics.duration_seconds >= MIN_DURATION_MS
                         /\ qc_metrics.silence_ratio >= SILENCE_RATIO_THRESHOLD_PM

C10_Witness ==
    /\ GateRan
    /\ pc = "done"
    /\ qc_metrics.duration_seconds = 300
    /\ qc_metrics.silence_ratio = 1000
    /\ resp.explanation =
           "Insufficient audio signal for reliable detection. Audio too short (0.30s)."

\* the windows the contract prescribes for a waveform w of at least one sample
PrescribedWindows(w, T, max_windows) ==
    LET L == Len(w)
    IN IF L <= T
       THEN << [j \in 1..T |-> w[((j - 1) % L) + 1]] >>
       ELSE LET n == Max(1, Min(max_windows, L \div T))
                step == IF n > 1 THEN (L - T) \div (n - 1) ELSE 0
            IN [i \in 1..n |-> [j \in 1..T |-> w[(i - 1) * step + j]]]

\* C11: for every waveform of at least one sample, every target length >= 1
\* and every max_windows >= 1 the window sampler returns (it does not raise) a
\* non-empty list, and every window of the list has exactly target-length
\* samples.
C11_WindowsShape ==
    (sampler.called /\ Len(sampler.waveform) >= 1) =>
        /\ ~sampler.raised
        /\ Len(sampler.windows) >= 1
        /\ \A i \in 1..Len(sampler.windows) :
              Len(sampler.windows[i]) = sampler.nb_samp

C11_Witness ==
    /\ sampler.called
    /\ Len(sampler.waveform) = 2
    /\ sampler.nb_samp = 3
    /\ sampler.windows = << <<1, 2, 1>> >>

\* C12: for every waveform of L >= 1 samples the sampler returns the prescribed
\* windows: for L <= T one window, the waveform tiled and cut to T samples; for
\* L > T, in order, n = max(1, min(max_windows, L div T)) windows, window i
\* being samples [i*step, i*step + T) with step = (L - T) div (n - 1) for
\* n > 1 and step = 0 for n = 1.  The number of windows is the one
\* WindowStarts gives for the lengths.
C12_WindowsContent ==
    (sampler.called /\ Len(sampler.waveform) >= 1) =>
        /\ sampler.windows =
               PrescribedWindows(sampler.waveform, sampler.nb_samp, sampler.max_windows)
        /\ Len(sampler.windows) =
               Len(WindowStarts(Len(sampler.waveform), sampler.nb_samp,
                                sampler.max_windows))

C12_Witness ==
    /\ sampler.called
    /\ Len(sampler.waveform) = 7
    /\ sampler.nb_samp = 2
    /\ sampler.max_windows = 3
    /\ sampler.windows = << <<1, 2>>, <<3, 4>>, <<5, 6>> >>

\* predict has aggregated the window scores of the current waveform
Aggregated ==
    /\ entry \in {"handler", "predict"}
    /\ pc = "done"
    /\ detector = "aasist_loaded"
    /\ result.kind = "ok"

Channels == {"orig_real", "orig_fake", "ft_real", "ft_fake"}

\* all_scores in the order given by the permutation p of its indices
Permuted(p) == [i \in 1..Len(all_scores) |-> all_scores[p[i]]]

WindowOrders(n) == { p \in [1..n -> 1..n] : \A i, j \in 1..n : p[i] = p[j] => i = j }

\* C13: in a prediction with loaded models there is one pair of scores for each
\* window the sampler returns for the waveform (at least one), and the
\* aggregate of each model and channel is the arithmetic mean of these scores;
\* with one window it is that window's score, and it is the same for every
\* order of the windows.
C13_MeanOverWindows ==
    Aggregated =>
        /\ Len(all_scores) >= 1
        /\ Len(all_scores) = NumWindows(waveform)
        /\ scores.n = Len(all_scores)
        /\ \A ch \in Channels :
              /\ scores[ch] * Len(all_scores) = SumField(all_scores, ch)
              /\ Len(all_scores) = 1 => scores[ch] = all_scores[1][ch]
              /\ \A p \in WindowOrders(Len(all_scores)) :
                    SumField(Permuted(p), ch) = scores[ch] * Len(all_scores)

C13_Witness ==
    /\ Aggregated
    /\ entry = "handler"
    /\ Len(all_scores) = 3
    /\ all_scores[1].orig_fake = Pct(10)
    /\ all_scores[2].orig_fake = Pct(93)
    /\ all_scores[3].orig_fake = Pct(97)
    /\ 3 * scores.orig_fake = Pct(200)

\* the request has been answered; its key, language and format are good
Admitted ==
    /\ entry = "request"
    /\ pc = "done"
    /\ verify_api_key(hdr, settings.VOICE_API_KEYS).ok
    /\ body.language \in SUPPORTED_LANGUAGES
    /\ Lower(body.audioFormat) = "mp3"

C15_DurationLimits ==
    (entry = "handler" /\ payload.kind = "audio") =>
        /\ DecodedDuration(waveform) > MAX_DURATION_SECONDS * 1000 =>
              /\ calls.qc = 0 /\ calls.gate = 0 /\ calls.predict = 0
              /\ qc_metrics = NoQC
              /\ pc = "done" => resp.status = "error" /\ resp.code = 400
        /\ (pc = "done" /\ DecodedDuration(waveform) <= MAX_DURATION_SECONDS * 1000) =>
              /\ resp.code # 400
              /\ calls.qc = 1
        /\ (pc = "done" /\ DecodedDuration(waveform) < MIN_DURATION_MS) =>
              /\ resp.status = "success"
              /\ resp.classification = "HUMAN"
              /\ calls.predict = 0

C15_Witness ==
    /\ entry = "handler"
    /\ pc = "done"
    /\ DecodedDuration(waveform) = MAX_DURATION_SECONDS * 1000 + 1
    /\ resp.code = 400
    /\ resp.message = "Audio too long (300.0s). Maximum: 300.0s."

\* C16 (as claimed): a request whose bytes the decoder cannot decode is
\* answered with a 400 error carrying the decode message, and QC and the
\* detector are not invoked for it.
C16_DecodeFailureIs400 ==
    (Admitted /\ calls.decode > 0 /\ payload.kind = "garbage") =>
        /\ resp.code = 400
        /\ resp.status = "error"
        /\ SubSeq(resp.message, 1, Len("Failed to decode MP3: ")) = "Failed to decode MP3: "
        /\ calls.qc = 0
        /\ calls.predict = 0

\* step 8 of the current request found no detector
BackendUnavailable ==
    /\ entry = "handler"
    /\ pc = "done"
    /\ detector = "None"
    /\ gate.called
    /\ ~gate.value

\* C17: no exception escapes the handler: every request that entered it ends
\* with one response, and an exception raised inside it gives the 500 response
\* {status: "error", message} with the fixed message "Internal server error.
\* Please try again later.", which holds no text of the exception.
C17_Generic500 ==
    /\ (entry = "handler" /\ pc = "done") => resp.status \in {"success", "error"}
    /\ BackendUnavailable => resp.code = 500
    /\ resp.code = 500 =>
          /\ resp = [NoResp EXCEPT !.code = 500, !.status = "error",
                        !.message = "Internal server error. Please try again later."]
          /\ ~Contains(resp.message, "Error")
          /\ ~Contains(resp.message, "Detector not initialized")

C17_Witness ==
    /\ BackendUnavailable
    /\ resp.code = 500
    /\ resp.message = "Internal server error. Please try again later."
    /\ calls.predict = 0

\* C18 (as claimed): when no detector is initialized at request time the caller
\* receives an error that differs from the response to any other internal
\* error, and never a verdict.
C18_ServiceUnavailable ==
    BackendUnavailable =>
        /\ resp.status = "error"
        /\ resp # create_error_response(500, INTERNAL_ERROR)

\* loader i is between acquiring the lock (touch) and releasing it (unlink)
InDownloadStep(i) ==
    loaders[i].pc \in {"check_again", "open", "write", "rename", "except", "except_unlink",
                       "finally"}

\* C19 (as claimed): no two loaders are in the download step at the same time,
\* and the weight file is downloaded at most once.
C19_MutualExclusion ==
    /\ \A i, j \in DOMAIN loaders : (InDownloadStep(i) /\ InDownloadStep(j)) => i = j
    /\ Cardinality({ i \in DOMAIN loaders : loaders[i].fd # 0 }) <= 1

\* C20 (as claimed): whenever the file at the cache path exists with non-zero
\* size, it holds a complete download.
C20_NoPartialFile ==
    Cached(fs) => fs.inodes[fs.local] = Chunks

\* C21: a loader that finds the lock file polls every 5 seconds and stops
\* waiting after at most 300 seconds (60 polls); every call of
\* download_weights that was started leaves the wait loop and returns or
\* raises, also when the lock file it waits for is never removed.
Polls(i) == loaders[i].wait_time \div POLL_SECONDS

C21_BoundedWait ==
    /\ [](\A i \in Loaders :
            /\ loaders[i].wait_time = POLL_SECONDS * Polls(i)
            /\ loaders[i].wait_time <= MAX_WAIT
            /\ Polls(i) <= 60
            /\ loaders[i].pc = "sleep" => loaders[i].wait_time < MAX_WAIT)
    /\ \A i \in Loaders : (loaders[i].pc # "idle") ~> (loaders[i].pc = "done")

\* a loader has polled 60 times, the lock file is still there, and the next
\* test of the loop condition lets it go on
C21_Witness ==
    \E i \in Loaders :
        /\ loaders[i].pc = "wait_test"
        /\ loaders[i].wait_time = MAX_WAIT
        /\ Polls(i) = 60
        /\ fs.lock

\* C22: a call of download_weights that finds a non-empty file at the cache
\* path returns at once: its one step leaves every file as it was (no lock,
\* no temporary file, the cached file untouched) and it has opened nothing
\* for download; so a call made after a call that downloaded the file
\* downloads nothing.
FirstCheck(i) == loaders[i].pc = "check_cached" /\ loaders'[i] # loaders[i]

C22_Idempotent ==
    [][\A i \in Loaders :
          (FirstCheck(i) /\ Cached(fs)) =>
              /\ fs' = fs
              /\ loaders'[i].pc = "done"
              /\ loaders'[i].outcome = "cached"
              /\ ~loaders'[i].touched
              /\ loaders'[i].fd = 0]_vars

\* one call has downloaded the file and returned; a later call found it at
\* its first check and returned it
C22_Witness ==
    \E i, j \in Loaders :
        /\ loaders[j].pc = "done" /\ loaders[j].outcome = "downloaded"
        /\ loaders[i].pc = "done" /\ loaders[i].outcome = "cached"
        /\ ~loaders[i].touched
        /\ Cached(fs) /\ ~fs.lock /\ fs.tmp = 0

\* C23: within one request of voice_detection the decoder is called at most
\* once and predict at most once; a request whose decode or predict raised
\* calls neither again and ends with an error response (predict is not
\* called at all after a failed decode).
DecodeFailed == entry = "handler" /\ result.kind = "raise" /\ calls.predict = 0

PredictFailed == entry = "handler" /\ result.kind = "raise" /\ calls.predict > 0

IsErrorResponse(r) == r.code \in {400, 500} /\ r.status = "error"

C23_NoRetry ==
    entry = "handler" =>
        /\ calls.decode <= 1
        /\ calls.predict <= 1
        /\ (DecodeFailed \/ PredictFailed) =>
               /\ pc = "done"
               /\ IsErrorResponse(resp)
               /\ DecodeFailed => resp.code = 400
               /\ PredictFailed => resp.code = 500

\* a request ended after its predict raised, with one call of each
C23_Witness ==
    /\ PredictFailed
    /\ pc = "done"
    /\ calls.decode = 1 /\ calls.predict = 1
    /\ resp.code = 500

\* C24 (as claimed): no step taken for a request writes a process-wide
\* variable: the settings, the detector singleton with its loaded models and
\* the state of the global random module stay as they were, in normal and in
\* demo mode.
C24_NoSharedWrites ==
    [][entry' = "handler" => UNCHANGED <<settings, detector, rng>>]_vars

\* C25: in demo mode the result of predict is a function of the RMS and the
\* language of the call alone: whatever state earlier calls left the random
\* module in, a call with RMS rms and language l returns DemoVerdict(rms, l),
\* so two calls with the same RMS and language return the same
\* classification, confidence and explanation.
DemoDraws(rms) ==
    LET first == RandomPm(RngSeed(rms * 10))
        second == RngNext(RngSeed(rms * 10))
    IN [is_ai |-> first > 500,
        confidence |-> IF first > 500 THEN RoundUniform(second, 70, 92)
                       ELSE RoundUniform(second, 68, 90)]

DemoVerdict(rms, language) ==
    LET d == DemoDraws(rms)
    IN [kind |-> "ok",
        classification |-> IF d.is_ai THEN "AI_GENERATED" ELSE "HUMAN",
        confidenceScore |-> Pct(d.confidence),
        explanation |-> TruncateExplanation(DemoExplanation(d.is_ai, language))]

DemoPredictDone ==
    /\ detector = "aasist_demo"
    /\ entry \in {"handler", "predict"}
    /\ pc = "done"
    /\ calls.predict = 1

C25_DemoDeterministic ==
    DemoPredictDone => result = DemoVerdict(qc_metrics.rms, body.language)

\* a request served in demo mode has got the verdict of its RMS
C25_Witness ==
    /\ DemoPredictDone
    /\ entry = "handler"
    /\ result.kind = "ok"
    /\ result.classification = "AI_GENERATED"
    /\ resp.classification = "AI_GENERATED"

\* C26 (as claimed): a call of download_weights that acquired the lock leaves
\* no transient file: when it leaves the function the lock file is gone; a
\* call that failed raises RuntimeError, the temporary file is gone when it
\* does, and it has put no file at the cache path.
Failed(i) == loaders[i].outcome \notin {"", "cached", "cached while waiting", "downloaded"}

C26_NoTransientFiles ==
    /\ [](\A i \in Loaders :
            /\ Failed(i) => loaders[i].outcome = "RuntimeError"
            /\ (Failed(i) /\ \A j \in Loaders : loaders[j].outcome # "downloaded")
                   => fs.local = 0)
    /\ [][\A i \in Loaders :
            /\ (loaders[i].pc = "finally" /\ loaders'[i].pc = "done") => ~fs'.lock
            /\ (~Failed(i) /\ Failed(i)') => fs'.tmp = 0 /\ fs'.local = fs.local]_vars

\* C29 (as claimed): the lock file is deleted only by the loader that owns
\* it: no loader deletes the lock file while another loader, which created
\* it, is still between acquiring and releasing it.
Removes(i) ==
    /\ loaders[i].pc = "finally" /\ loaders'[i].pc = "done"
    /\ fs.lock /\ ~fs'.lock

C29_OwnLockOnly ==
    [][\A i \in Loaders :
          Removes(i) =>
              ~\E j \in Loaders \ {i} : loaders[j].created /\ InDownloadStep(j)]_vars

\* C27 (as claimed): the singleton only ever holds a detector whose load()
\* returned; initialize_detector leaves it as it was when it raises (unknown
\* backend name, load() raising); get_detector raises RuntimeError exactly
\* while it holds nothing; and a start of the application configured with a
\* known backend ends without an exception and with a detector set,
\* qc_fallback standing in for a backend whose load() raises
\* NotImplementedError.
HoldsLoadedDetector == detector = "None" \/ (detector \in BackendNames /\ load(detector) = "")

StartupEndsWithDetector ==
    (startup.ran /\ environ.DETECTOR_BACKEND \in BackendNames) =>
        /\ startup.raised = ""
        /\ detector = "qc_fallback"

RegistryCalls ==
    /\ (entry' = "initialize_detector" /\ result'.kind = "raise") => detector' = detector
    /\ (entry' = "initialize_detector" /\ result'.kind = "ok") => detector' # "None"
    /\ entry' = "get_detector" =>
           /\ detector' = detector
           /\ result'.kind = "raise" <=> detector = "None"
           /\ result'.kind = "raise" =>
                  result'.explanation = "RuntimeError: Detector not initialized. "
                                            \o "Call initialize_detector() at app startup."
    /\ entry' = "reset_detector" => detector' = "None"

C27_SingletonLoaded ==
    /\ [](HoldsLoadedDetector /\ StartupEndsWithDetector)
    /\ [][pc = "idle" => RegistryCalls]_vars

\* C28: for a waveform of more than T samples every window returned lies
\* inside the waveform, the first one starts at sample 0 and consecutive
\* windows do not overlap (the next one starts at or after the end of the
\* one before); every window the loop computes is returned, none is dropped
\* by the end-of-waveform check, and the fallback to the single leading
\* window is not taken.
WindowStart(k) == sampler.windows[k][1] - 1

WindowEnd(k) == sampler.windows[k][sampler.nb_samp]

LongWaveform == sampler.called /\ Len(sampler.waveform) > sampler.nb_samp

C28_WindowsInsideDisjoint ==
    LongWaveform =>
        LET n == Len(sampler.windows)
        IN /\ ~sampler.raised
           /\ n >= 1
           /\ WindowStart(1) = 0
           /\ \A k \in 1..n :
                  /\ 0 <= WindowStart(k)
                  /\ WindowEnd(k) <= Len(sampler.waveform)
                  /\ sampler.windows[k] =
                         Slice(sampler.waveform, WindowStart(k),
                               WindowStart(k) + sampler.nb_samp)
           /\ \A k \in 1..(n - 1) :
                  WindowStart(k + 1) - WindowStart(k) >= sampler.nb_samp
           /\ sampler.computed = n
           /\ ~sampler.fallback

\* three windows of a waveform that leaves a remainder: the steps are wider
\* than the windows and the last window ends at the last sample
C28_Witness ==
    /\ LongWaveform
    /\ Len(sampler.waveform) = 8
    /\ sampler.nb_samp = 2
    /\ sampler.max_windows = 3
    /\ sampler.computed = 3
    /\ sampler.windows = << <<1, 2>>, <<4, 5>>, <<7, 8>> >>

\* C30: when the two probabilities of the original model sum to 1 and the
\* threshold is 0.5, the confidence of every verdict of the decision engine
\* is at least 0.5, whichever rule decided: it is never below 1 minus
\* itself, the share left for the class that was not chosen.
OrigSumsToOne == scores.orig_real + scores.orig_fake = PROB_ONE

\* the probability that the model the deciding rule took its confidence from
\* gave to the class the rule did not choose
NotChosen ==
    IF Contains(result.explanation, "Indian FAKE (inverted detection)")
    THEN scores.orig_fake
    ELSE IF Contains(result.explanation, "English FAKE (direct detection)")
    THEN scores.orig_real
    ELSE IF Contains(result.explanation, "Default (weighted)")
    THEN IF result.classification = "AI_GENERATED"
         THEN scores.orig_real ELSE scores.orig_fake
    ELSE scores.ft_fake

C30_ConfidenceAtLeastHalf ==
    (Decided /\ OrigSumsToOne /\ settings.AASIST_THRESHOLD = Pct(50)) =>
        /\ result.confidenceScore >= Pct(50)
        /\ result.confidenceScore >= PROB_ONE - result.confidenceScore
        /\ result.confidenceScore >= NotChosen

\* the default rule on the threshold itself: not fake, confidence exactly 0.5
C30_Witness ==
    /\ Decided
    /\ OrigSumsToOne
    /\ settings.AASIST_THRESHOLD = Pct(50)
    /\ scores.orig_fake = Pct(50)
    /\ result.classification = "HUMAN"
    /\ result.confidenceScore = Pct(50)
    /\ Contains(result.explanation, "Default (weighted)")

====
